---- MODULE Spec2Model ----
(***************************************************************************)
(* A model of the mamacita backend: Express route handlers over a Prisma   *)
(* store.  Every handler is an async function; between two awaits of a     *)
(* store call another request may run, so a handler is modelled as one     *)
(* action per store call (the synchronous code before and after the call   *)
(* belongs to the same action).                                            *)
(*                                                                         *)
(* Optional values (null / undefined in the source) are sets with at most  *)
(* one element.  Strings that the code inspects character by character     *)
(* (email, password, the Authorization header) are sequences.              *)
(***************************************************************************)
EXTENDS Integers, Sequences, FiniteSets, TLC

VARIABLES
    users,          \* table "users": set of [id, email, passwordHash, role]
    profiles,       \* mother_/collaborator_/admin_profiles:
                    \* set of [kind, userId, fullName, onboardingDone]
    regReq,         \* in-flight and finished POST /auth/register requests
    loginReq,       \* finished POST /auth/login requests
    now,            \* the clock read by new Date(), in days
    pregnancies,    \* table of pregnancies: [id, motherProfileId, dueDate, currentWeek, status]
    pregReq,        \* in-flight and finished /pregnancy requests
    events,         \* table of events: [id, capacity, waitlistEnabled, isPublished, organizerId]
    registrations,  \* table of event registrations: [eventId, userId, status]
    evReq,          \* in-flight and finished /events/:id/register requests
    reports,        \* table of reports: [id, status]
    classes,        \* table of classes:
                    \* [id, isPublished, averageRating, reviewCount]
    verified,       \* ids of the collaborator profiles with isVerified
    authReq,        \* requests on their way through authenticate and the routers
    posts,          \* table of posts: [id, authorId, deleted]
    reactions,      \* table of reactions: [postId, userId, type]
    comments,       \* table of comments: [id, postId, authorId]
    commReq,        \* in-flight and finished /community requests
    reactionLog,    \* history: per (post, mother), her previous toggleReaction call
    notifications,  \* table of notifications: [id, userId, isRead]
    userReq,        \* in-flight and finished /users requests
    enrollments,    \* table enrollments: set of [classId, userId]
    classReviews,   \* table class_reviews: set of [classId, userId, rating]
    reviewReq,      \* in-flight and finished addReview requests
    symptomLogs,    \* table symptom_logs: set of [id, pregnancyId, week]
    groups,         \* table groups: set of [id, isPublic, createdById]
    groupMembers    \* table group_members: set of [groupId, userId]

accountVars == <<users, profiles, regReq, loginReq>>
pregnancyVars == <<now, pregnancies, pregReq, symptomLogs>>
eventVars == <<events, registrations, evReq>>
adminVars == <<reports, classes, verified, authReq>>
communityVars == <<posts, reactions, comments, commReq, reactionLog, groups, groupMembers>>
notificationVars == <<notifications, userReq>>
classVars == <<enrollments, classReviews, reviewReq>>
vars == <<accountVars, pregnancyVars, eventVars, adminVars, communityVars,
          notificationVars, classVars>>

nonAccountVars == <<pregnancyVars, eventVars, adminVars, communityVars, notificationVars, classVars>>
nonPregnancyVars == <<regReq, loginReq, eventVars, adminVars, communityVars,
                      notificationVars, classVars>>
nonEventVars == <<accountVars, pregnancyVars, adminVars, communityVars, notificationVars, classVars>>
nonAdminVars == <<accountVars, pregnancyVars, eventVars, communityVars, notificationVars, classVars>>
nonCommunityVars == <<accountVars, pregnancyVars, eventVars, adminVars, notificationVars, classVars>>

(***************************************************************************)
(* Bounds                                                                  *)
(***************************************************************************)
MaxUsers == 3        \* rows the users table may hold
MaxRegister == 2     \* concurrent register requests
MaxLogin == 2        \* login requests observed
MaxPregnancies == 2  \* rows the pregnancies table may hold
MaxPregReq == 2      \* concurrent /pregnancy requests
MaxSymptomLogs == 2  \* rows the symptom_logs table may hold
MaxNow == 13         \* days the clock may advance
MaxCapacity == 2     \* largest capacity an event is created with
MaxMothers == 3      \* mothers registering for events
MaxEvReq == 2        \* concurrent event registration requests
MaxComments == 1     \* rows the comments table may hold
MaxCommReq == 2      \* concurrent community requests
MaxReviewReq == 2    \* concurrent addReview requests

UserIds == 1..MaxUsers
RegIds == 1..MaxRegister
LoginIds == 1..MaxLogin
PregnancyIds == 1..MaxPregnancies
PregReqIds == 1..MaxPregReq
SymptomLogIds == 1..MaxSymptomLogs
\* A request touches the rows of one event only: one event id.
EventIds == {1}
EvReqIds == 1..MaxEvReq
\* A guarded request shares nothing with another but the store: one slot.
AuthReqIds == {1}
\* The requests of the community domain address one post.
PostIds == {1}
CommentIds == 1..MaxComments
CommReqIds == 1..MaxCommReq
ReviewReqIds == 1..MaxReviewReq
\* The handlers of the users controller write one row by its key and carry
\* nothing from a read into a write: one request slot.
UserReqIds == {1}

(***************************************************************************)
(* Strings                                                                 *)
(***************************************************************************)
EmailA == <<"a", "@", "x", ".", "c">>
EmailB == <<"b", "@", "x", ".", "c">>
EmailAdmin == <<"r", "@", "x", ".", "c">>
EmailNoDot == <<"a", "@", "x">>
EmailSpace == <<"a", " ", "@", "x", ".", "c">>
PwSecret == <<"s", "e", "c", "r", "e", "t">>
PwHunter == <<"h", "u", "n", "t", "e", "r">>
PwShort == <<"a", "b", "c">>
PwAdmin == <<"a", "d", "m", "i", "n", "1", "2", "3">>

\* /^[^\s@]+@[^\s@]+\.[^\s@]+$/
isValidEmail(email) ==
    /\ \A i \in 1..Len(email) : email[i] # " "
    /\ \E p \in 1..Len(email) :
          /\ email[p] = "@"
          /\ \A i \in 1..Len(email) : email[i] = "@" => i = p
          /\ p >= 2
          /\ \E q \in (p + 2)..(Len(email) - 1) : email[q] = "."

\* password && password.length >= 6
isValidPassword(password) == Len(password) > 0 /\ Len(password) >= 6

\* requiredFields.filter(field => !data[field]): an absent field and an empty
\* string are both missing.
SeqFields == {"email", "password"}
DateFields == {"dueDate", "startDate", "endDate"}

validateRequiredFields(data, requiredFields) ==
    LET missing == {f \in requiredFields :
                        IF f \in SeqFields THEN Len(data[f]) = 0
                        ELSE IF f \in DateFields THEN data[f].kind = "absent"
                        ELSE data[f] = ""}
    IN  [valid |-> missing = {}, missing |-> missing]

\* bcrypt.hash(password, 10) and bcrypt.compare(password, hash)
bcryptHash(password) == <<"$2a$10$", password>>
bcryptCompare(password, hash) == hash = bcryptHash(password)


(***************************************************************************)
(* Token codec (utils/jwt.js): a token carries {userId, email, role}; it   *)
(* verifies iff it was signed with the process secret and has not expired. *)
(***************************************************************************)
generateToken(claims) ==
    [userId |-> claims.userId, email |-> claims.email, role |-> claims.role,
     signed |-> TRUE, expired |-> FALSE]

(***************************************************************************)
(* The users table.  users_email_key and users_pkey are unique indexes: an *)
(* insert that would duplicate an email is refused by the store.           *)
(***************************************************************************)
findUserByEmail(email) == {u \in users : u.email = email}
findUserById(id) == {u \in users : u.id = id}

\* The users table without its unique index on email.
users_email_key_absent(email) == TRUE

users_email_key(email) == findUserByEmail(email) = {}

FreeUserIds == UserIds \ {u.id : u \in users}

(***************************************************************************)
(* POST /auth/register                                                     *)
(***************************************************************************)
RegisterBodies ==
    {[email |-> EmailA, password |-> PwSecret, role |-> "MOTHER",
      fullName |-> "Maria", profession |-> ""],
     [email |-> EmailB, password |-> PwSecret, role |-> "MOTHER",
      fullName |-> "Maria", profession |-> ""],
     [email |-> EmailA, password |-> PwHunter, role |-> "COLLABORATOR",
      fullName |-> "Carla", profession |-> "Doula"],
     [email |-> EmailA, password |-> PwSecret, role |-> "COLLABORATOR",
      fullName |-> "Carla", profession |-> ""],
     [email |-> EmailB, password |-> PwSecret, role |-> "ADMIN",
      fullName |-> "Maria", profession |-> ""],
     [email |-> EmailA, password |-> PwShort, role |-> "MOTHER",
      fullName |-> "Maria", profession |-> ""],
     [email |-> EmailNoDot, password |-> PwSecret, role |-> "MOTHER",
      fullName |-> "Maria", profession |-> ""],
     [email |-> EmailSpace, password |-> PwSecret, role |-> "MOTHER",
      fullName |-> "Maria", profession |-> ""],
     [email |-> EmailAdmin, password |-> PwSecret, role |-> "MOTHER",
      fullName |-> "", profession |-> ""]}

NoBody ==
    [email |-> <<>>, password |-> <<>>, role |-> "", fullName |-> "", profession |-> ""]

IdleRegister == [pc |-> "idle", body |-> NoBody, status |-> 0, created |-> {}]

RegisterDone(r, status) ==
    regReq' = [regReq EXCEPT ![r].pc = "done", ![r].status = status]

\* Lines 29-74: validation, then the existence check (first store call).
RegisterCheck(r, body) ==
    /\ regReq[r].pc = "idle"
    /\ UNCHANGED <<users, profiles, loginReq, nonAccountVars>>
    /\ LET req == [regReq EXCEPT ![r].body = body]
       IN  IF ~validateRequiredFields(body, {"email", "password", "role", "fullName"}).valid
             THEN regReq' = [req EXCEPT ![r].pc = "done", ![r].status = 400]
           ELSE IF ~isValidEmail(body.email)
             THEN regReq' = [req EXCEPT ![r].pc = "done", ![r].status = 400]
           ELSE IF ~isValidPassword(body.password)
             THEN regReq' = [req EXCEPT ![r].pc = "done", ![r].status = 400]
           ELSE IF body.role \notin {"MOTHER", "COLLABORATOR"}
             THEN regReq' = [req EXCEPT ![r].pc = "done", ![r].status = 400]
           ELSE IF findUserByEmail(body.email) # {}
             THEN regReq' = [req EXCEPT ![r].pc = "done", ![r].status = 409]
           ELSE regReq' = [req EXCEPT ![r].pc = "create"]

\* The profile created with the account (nested create, lines 87-111).
\* A profile row as register creates it (lines 87-111).
Profile(kind, userId, fullName) ==
    [kind |-> kind, userId |-> userId, fullName |-> fullName, onboardingDone |-> FALSE]

ProfileKind(role) == IF role = "MOTHER" THEN "mother" ELSE "collaborator"

\* Lines 76-146: hash, build the row, prisma.user.create (second store call).
\* A unique-index violation makes create throw; the catch answers 500.
RegisterCreate(r) ==
    /\ regReq[r].pc = "create"
    /\ UNCHANGED <<loginReq, nonAccountVars>>
    /\ LET body == regReq[r].body
       IN  IF body.role = "COLLABORATOR" /\ body.profession = ""
             THEN /\ RegisterDone(r, 400)
                  /\ UNCHANGED <<users, profiles>>
           ELSE IF ~users_email_key(body.email)
             THEN /\ RegisterDone(r, 500)
                  /\ UNCHANGED <<users, profiles>>
           ELSE /\ FreeUserIds # {}
                /\ LET id == CHOOSE i \in FreeUserIds : \A j \in FreeUserIds : i <= j
                   IN  /\ users' = users \cup
                              {[id |-> id, email |-> body.email,
                                passwordHash |-> bcryptHash(body.password),
                                role |-> body.role]}
                       /\ profiles' = profiles \cup
                              {Profile(ProfileKind(body.role), id, body.fullName)}
                       /\ regReq' = [regReq EXCEPT ![r].pc = "done", ![r].status = 201,
                                                   ![r].created = {id}]

\* The client reads the response; the slot serves the next request.
RegisterRespond(r) ==
    /\ regReq[r].pc = "done"
    /\ regReq' = [regReq EXCEPT ![r] = IdleRegister]
    /\ UNCHANGED <<users, profiles, loginReq, nonAccountVars>>

(***************************************************************************)
(* POST /auth/login                                                        *)
(***************************************************************************)
LoginBodies ==
    {[email |-> EmailA, password |-> PwSecret],
     [email |-> EmailA, password |-> PwHunter],
     [email |-> EmailAdmin, password |-> PwAdmin],
     [email |-> EmailA, password |-> <<>>]}

IdleLogin ==
    [pc |-> "idle", body |-> [email |-> <<>>, password |-> <<>>],
     status |-> 0, message |-> "", token |-> {},
     userFound |-> FALSE, passwordValid |-> FALSE]

\* login answering differently when the email has no account.
login_reveals_missing_account(body) ==
    LET user == {u \in users : u.email = body.email}
    IN  IF ~validateRequiredFields(body, {"email", "password"}).valid
          THEN [status |-> 400, message |-> "Campos obrigatorios ausentes", token |-> {}]
        ELSE IF user = {}
          THEN [status |-> 404, message |-> "Usuario nao encontrado", token |-> {}]
        ELSE IF \A u \in user : ~bcryptCompare(body.password, u.passwordHash)
          THEN [status |-> 401, message |-> "Email ou senha incorretos", token |-> {}]
        ELSE [status |-> 200, message |-> "Login realizado com sucesso",
              token |-> {generateToken([userId |-> u.id, email |-> u.email,
                                        role |-> u.role]) : u \in user}]

\* Lines 155-214: the response of login for a request body, read off the
\* users table as it is when findUnique runs.
login(body) ==
    LET user == findUserByEmail(body.email)
    IN  IF ~validateRequiredFields(body, {"email", "password"}).valid
          THEN [status |-> 400, message |-> "Campos obrigatorios ausentes", token |-> {}]
        ELSE IF user = {}
          THEN [status |-> 401, message |-> "Email ou senha incorretos", token |-> {}]
        ELSE IF \A u \in user : ~bcryptCompare(body.password, u.passwordHash)
          THEN [status |-> 401, message |-> "Email ou senha incorretos", token |-> {}]
        ELSE [status |-> 200, message |-> "Login realizado com sucesso",
              token |-> {generateToken([userId |-> u.id, email |-> u.email,
                                        role |-> u.role]) : u \in user}]

\* One login request.  userFound and passwordValid record what the store held
\* for the request's email when it ran.
Login(l, body) ==
    /\ loginReq[l].pc = "idle"
    /\ LET res == login(body)
           user == findUserByEmail(body.email)
       IN  loginReq' = [loginReq EXCEPT ![l] =
               [pc |-> "done", body |-> body, status |-> res.status,
                message |-> res.message, token |-> res.token,
                userFound |-> user # {},
                passwordValid |-> \E u \in user :
                                     bcryptCompare(body.password, u.passwordHash)]]
    /\ UNCHANGED <<users, profiles, regReq, nonAccountVars>>

LoginRespond(l) ==
    /\ loginReq[l].pc = "done"
    /\ loginReq' = [loginReq EXCEPT ![l] = IdleLogin]
    /\ UNCHANGED <<users, profiles, regReq, nonAccountVars>>

(***************************************************************************)
(* Dates.  A date in a request body is absent, unparsable (new Date gives  *)
(* Invalid Date) or an instant; instants are counted in days.              *)
(***************************************************************************)
NoDate == [kind |-> "absent", t |-> 0]
InvalidDate == [kind |-> "invalid", t |-> 0]
DateAt(t) == [kind |-> "date", t |-> t]

\* const dateObj = new Date(date); return dateObj > new Date();
isFutureDate(date) == date.kind = "date" /\ date.t > now

Max(a, b) == IF a >= b THEN a ELSE b
Min(a, b) == IF a <= b THEN a ELSE b

weeksSinceLMP == 40
millisecondsPerWeek == 7     \* 7 * 24 * 60 * 60 * 1000 ms, in days

\* The week calculation counting the weeks until the due date up instead of down.
currentWeekAt_weeks_until_due(dueDate, t) ==
    LET weeksUntilDueNum == dueDate - t
    IN  Max(1, Min(40, weeksUntilDueNum \div millisecondsPerWeek))

\* The week calculation with the weeks until the due date rounded down first.
currentWeekAt_remaining_rounded_down(dueDate, t) ==
    LET weeksUntilDueNum == dueDate - t
    IN  Max(1, Min(40, weeksSinceLMP - (weeksUntilDueNum \div millisecondsPerWeek)))

\* The week calculation with the lower clamp forgotten.
currentWeekAt_no_lower_clamp(dueDate, t) ==
    LET weeksUntilDueNum == dueDate - t
        currentWeek == (weeksSinceLMP * millisecondsPerWeek - weeksUntilDueNum)
                           \div millisecondsPerWeek
    IN  Min(40, currentWeek)

\* Lines 11-21: Math.floor(weeksSinceLMP - (due - now) / millisecondsPerWeek),
\* clamped between 1 and 40, for the clock reading t.
currentWeekAt(dueDate, t) ==
    LET weeksUntilDueNum == dueDate - t
        currentWeek == (weeksSinceLMP * millisecondsPerWeek - weeksUntilDueNum)
                           \div millisecondsPerWeek
    IN  Max(1, Min(40, currentWeek))

\* Line 10: const now = new Date().
calculateCurrentWeek(dueDate) == currentWeekAt(dueDate, now)

(***************************************************************************)
(* The pregnancies table and the relation MotherProfile.pregnancy.  The    *)
(* handlers read the relation as one optional row.                         *)
(***************************************************************************)
roleOf(userId) == (CHOOSE u \in users : u.id = userId).role

findPregnancyById(id) == {p \in pregnancies : p.id = id}

\* The rows the relation of a mother profile can deliver.
pregnancyOf(profileId) == {p \in pregnancies : p.motherProfileId = profileId}

\* Whether the table accepts a new row for the profile: the persisted layout
\* states no unique constraint on the owning profile.
pregnancy_insert_allowed(profileId) == TRUE

FreePregnancyIds == PregnancyIds \ {p.id : p \in pregnancies}

PregnancyStatuses == {"ACTIVE", "COMPLETED", "LOST"}

NoPregnancyBody == [dueDate |-> NoDate, status |-> ""]

IdlePregnancy ==
    [pc |-> "idle", op |-> "", userId |-> 0, id |-> 0, body |-> NoPregnancyBody,
     read |-> {}, status |-> 0]

PregnancyDone(r, status) ==
    pregReq' = [pregReq EXCEPT ![r].pc = "done", ![r].status = status]

(***************************************************************************)
(* POST /pregnancy                                                         *)
(***************************************************************************)
CreatePregnancyBodies ==
    {[dueDate |-> d, status |-> ""] : d \in {NoDate, InvalidDate, DateAt(5), DateAt(290)}}

\* Lines 30-67: role and input checks, then the read of the mother's
\* pregnancy (first store call).
CreatePregnancyRead(r, userId, body) ==
    /\ pregReq[r].pc = "idle"
    /\ UNCHANGED <<now, pregnancies, symptomLogs, users, profiles, nonPregnancyVars>>
    /\ LET req == [pregReq EXCEPT ![r].op = "createPregnancy", ![r].userId = userId,
                                 ![r].body = body]
       IN  IF roleOf(userId) # "MOTHER"
             THEN pregReq' = [req EXCEPT ![r].pc = "done", ![r].status = 403]
           ELSE IF ~validateRequiredFields(body, {"dueDate"}).valid
             THEN pregReq' = [req EXCEPT ![r].pc = "done", ![r].status = 400]
           ELSE IF ~isFutureDate(body.dueDate)
             THEN pregReq' = [req EXCEPT ![r].pc = "done", ![r].status = 400]
           ELSE IF pregnancyOf(userId) = {}
             THEN pregReq' = [req EXCEPT ![r].pc = "create"]
           ELSE \E p \in pregnancyOf(userId) :
                   IF p.status = "ACTIVE"
                     THEN pregReq' = [req EXCEPT ![r].pc = "done", ![r].status = 409]
                     ELSE pregReq' = [req EXCEPT ![r].pc = "create"]

\* Lines 69-86: compute the week, prisma.pregnancy.create (second store call).
CreatePregnancyInsert(r) ==
    /\ pregReq[r].pc = "create"
    /\ UNCHANGED <<now, symptomLogs, users, profiles, nonPregnancyVars>>
    /\ IF ~pregnancy_insert_allowed(pregReq[r].userId)
         THEN /\ PregnancyDone(r, 500)
              /\ UNCHANGED pregnancies
         ELSE /\ FreePregnancyIds # {}
              /\ LET id == CHOOSE i \in FreePregnancyIds : \A j \in FreePregnancyIds : i <= j
                 IN  /\ pregnancies' = pregnancies \cup
                            {[id |-> id, motherProfileId |-> pregReq[r].userId,
                              dueDate |-> pregReq[r].body.dueDate.t,
                              currentWeek |-> calculateCurrentWeek(pregReq[r].body.dueDate.t),
                              status |-> "ACTIVE"]}
                     /\ pregReq' = [pregReq EXCEPT ![r].pc = "done", ![r].status = 201,
                                                   ![r].id = id]

(***************************************************************************)
(* PUT /pregnancy/:id                                                      *)
(***************************************************************************)
UpdatePregnancyBodies ==
    {[dueDate |-> NoDate, status |-> "ACTIVE"],
     [dueDate |-> NoDate, status |-> "COMPLETED"],
     [dueDate |-> NoDate, status |-> "PAUSED"],
     [dueDate |-> DateAt(20), status |-> ""],
     [dueDate |-> DateAt(2), status |-> "LOST"]}

\* Lines 176-206: role check, findUnique by id, ownership check.
UpdatePregnancyRead(r, userId, id, body) ==
    /\ pregReq[r].pc = "idle"
    /\ UNCHANGED <<now, pregnancies, symptomLogs, users, profiles, nonPregnancyVars>>
    /\ LET req == [pregReq EXCEPT ![r].op = "updatePregnancy", ![r].userId = userId,
                                 ![r].id = id, ![r].body = body]
           pregnancy == findPregnancyById(id)
       IN  IF roleOf(userId) # "MOTHER"
             THEN pregReq' = [req EXCEPT ![r].pc = "done", ![r].status = 403]
           ELSE IF pregnancy = {}
             THEN pregReq' = [req EXCEPT ![r].pc = "done", ![r].status = 404]
           ELSE IF \E p \in pregnancy : p.motherProfileId # userId
             THEN pregReq' = [req EXCEPT ![r].pc = "done", ![r].status = 403]
           ELSE pregReq' = [req EXCEPT ![r].pc = "update", ![r].read = pregnancy]

\* The row after prisma.pregnancy.update with the updateData of lines 209-224.
updateData(p, body) ==
    LET withDate == IF body.dueDate.kind # "absent"
                      THEN [p EXCEPT !.dueDate = body.dueDate.t,
                                     !.currentWeek = calculateCurrentWeek(body.dueDate.t)]
                      ELSE p
    IN  IF body.status # "" /\ body.status \in PregnancyStatuses
          THEN [withDate EXCEPT !.status = body.status]
          ELSE withDate

\* Lines 208-236: build updateData, prisma.pregnancy.update (second store call).
UpdatePregnancyWrite(r) ==
    /\ pregReq[r].pc = "update"
    /\ UNCHANGED <<now, symptomLogs, users, profiles, nonPregnancyVars>>
    /\ LET body == pregReq[r].body
       IN  IF body.dueDate.kind # "absent" /\ ~isFutureDate(body.dueDate)
             THEN /\ PregnancyDone(r, 400)
                  /\ UNCHANGED pregnancies
           ELSE /\ pregnancies' =
                       {IF p.id = pregReq[r].id THEN updateData(p, body) ELSE p :
                           p \in pregnancies}
                /\ PregnancyDone(r, 200)

(***************************************************************************)
(* GET /pregnancy/current                                                  *)
(***************************************************************************)
\* Lines 103-142: role check and the read of the ACTIVE pregnancy.
GetCurrentPregnancyRead(r, userId) ==
    /\ pregReq[r].pc = "idle"
    /\ UNCHANGED <<now, pregnancies, symptomLogs, users, profiles, nonPregnancyVars>>
    /\ LET req == [pregReq EXCEPT ![r].op = "getCurrentPregnancy", ![r].userId = userId]
           active == {p \in pregnancyOf(userId) : p.status = "ACTIVE"}
       IN  IF roleOf(userId) # "MOTHER"
             THEN pregReq' = [req EXCEPT ![r].pc = "done", ![r].status = 403]
           ELSE IF active = {}
             THEN pregReq' = [req EXCEPT ![r].pc = "done", ![r].status = 404]
           ELSE \E p \in active :
                   pregReq' = [req EXCEPT ![r].pc = "recompute", ![r].id = p.id,
                                          ![r].read = {p}]

\* Lines 144-159: recompute the week; write it when it differs from the row read.
GetCurrentPregnancyRecompute(r) ==
    /\ pregReq[r].pc = "recompute"
    /\ UNCHANGED <<now, symptomLogs, users, profiles, nonPregnancyVars>>
    /\ \E p \in pregReq[r].read :
          LET updatedWeek == calculateCurrentWeek(p.dueDate)
          IN  /\ IF updatedWeek # p.currentWeek
                   THEN pregnancies' =
                            {IF q.id = p.id THEN [q EXCEPT !.currentWeek = updatedWeek] ELSE q :
                                q \in pregnancies}
                   ELSE UNCHANGED pregnancies
              /\ PregnancyDone(r, 200)

(***************************************************************************)
(* POST /pregnancy/symptoms and GET /pregnancy/symptoms                    *)
(***************************************************************************)
FreeSymptomLogIds == SymptomLogIds \ {l.id : l \in symptomLogs}

\* Lines 248-272: role check and the read of the ACTIVE pregnancy (first
\* store call).
LogSymptomsRead(r, userId) ==
    /\ pregReq[r].pc = "idle"
    /\ UNCHANGED <<now, pregnancies, symptomLogs, users, profiles, nonPregnancyVars>>
    /\ LET req == [pregReq EXCEPT ![r].op = "logSymptoms", ![r].userId = userId]
           active == {p \in pregnancyOf(userId) : p.status = "ACTIVE"}
       IN  IF roleOf(userId) # "MOTHER"
             THEN pregReq' = [req EXCEPT ![r].pc = "done", ![r].status = 403]
           ELSE IF active = {}
             THEN pregReq' = [req EXCEPT ![r].pc = "done", ![r].status = 404]
           ELSE \E p \in active :
                   pregReq' = [req EXCEPT ![r].pc = "log", ![r].id = p.id,
                                          ![r].read = {p}]

\* Line 280: week: pregnancy.currentWeek, of the row read.
symptomLogWeek(pregnancy) == pregnancy.currentWeek

\* Lines 274-290: prisma.symptomLog.create (second store call).
LogSymptomsCreate(r) ==
    /\ pregReq[r].pc = "log"
    /\ FreeSymptomLogIds # {}
    /\ UNCHANGED <<now, pregnancies, users, profiles, nonPregnancyVars>>
    /\ LET id == CHOOSE i \in FreeSymptomLogIds : \A j \in FreeSymptomLogIds : i <= j
       IN  \E p \in pregReq[r].read :
              symptomLogs' = symptomLogs \cup
                  {[id |-> id, pregnancyId |-> p.id, week |-> symptomLogWeek(p)]}
    /\ PregnancyDone(r, 201)

\* Lines 303-326: role check and the read of the ACTIVE pregnancy (first
\* store call).
GetSymptomLogsRead(r, userId) ==
    /\ pregReq[r].pc = "idle"
    /\ UNCHANGED <<now, pregnancies, symptomLogs, users, profiles, nonPregnancyVars>>
    /\ LET req == [pregReq EXCEPT ![r].op = "getSymptomLogs", ![r].userId = userId]
           active == {p \in pregnancyOf(userId) : p.status = "ACTIVE"}
       IN  IF roleOf(userId) # "MOTHER"
             THEN pregReq' = [req EXCEPT ![r].pc = "done", ![r].status = 403]
           ELSE IF active = {}
             THEN pregReq' = [req EXCEPT ![r].pc = "done", ![r].status = 404]
           ELSE \E p \in active :
                   pregReq' = [req EXCEPT ![r].pc = "findMany", ![r].id = p.id,
                                          ![r].read = {p}]

\* Lines 328-344: prisma.symptomLog.findMany of the pregnancy (second store
\* call), 200.
GetSymptomLogsFindMany(r) ==
    /\ pregReq[r].pc = "findMany"
    /\ PregnancyDone(r, 200)
    /\ UNCHANGED <<now, pregnancies, symptomLogs, users, profiles, nonPregnancyVars>>

PregnancyRespond(r) ==
    /\ pregReq[r].pc = "done"
    /\ pregReq' = [pregReq EXCEPT ![r] = IdlePregnancy]
    /\ UNCHANGED <<now, pregnancies, symptomLogs, users, profiles, nonPregnancyVars>>

\* Time passes: a day.
Tick ==
    /\ now < MaxNow
    /\ now' = now + 1
    /\ UNCHANGED <<pregnancies, pregReq, symptomLogs, accountVars, eventVars, adminVars, communityVars,
                 notificationVars, classVars>>

(***************************************************************************)
(* Events and registrations.  (eventId, userId) is a unique key of the     *)
(* registrations table: the handlers look rows up by eventId_userId.       *)
(***************************************************************************)
\* A look-up that also finds events that are not published.
findEvent_any(id) == {e \in events : e.id = id}

findEvent(id) == {e \in events : e.id = id /\ e.isPublished}

\* A look-up that does not see cancelled registrations.
findRegistration_active_only(eventId, userId) ==
    {g \in registrations : g.eventId = eventId /\ g.userId = userId
                           /\ g.status # "CANCELLED"}

findRegistration(eventId, userId) ==
    {g \in registrations : g.eventId = eventId /\ g.userId = userId}

\* _count.registrations where status = 'REGISTERED'
registeredCount(eventId) ==
    Cardinality({g \in registrations : g.eventId = eventId /\ g.status = "REGISTERED"})

\* A registrations table without the unique key.
eventId_userId_absent(eventId, userId) == TRUE

eventId_userId(eventId, userId) == findRegistration(eventId, userId) = {}

FreeEventIds == EventIds \ {e.id : e \in events}

ValidEventBody ==
    [title |-> "Roda", description |-> "Roda de conversa", type |-> "ONLINE",
     category |-> "parto", startDate |-> DateAt(50), endDate |-> DateAt(51),
     location |-> "", meetingLink |-> "https://meet", capacity |-> {},
     waitlistEnabled |-> FALSE]

CreateEventBodies ==
    {[ValidEventBody EXCEPT !.capacity = c, !.waitlistEnabled = w] :
        c \in {{}} \cup {{n} : n \in 0..MaxCapacity}, w \in BOOLEAN}
    \cup
    {[ValidEventBody EXCEPT !.title = ""],
     [ValidEventBody EXCEPT !.startDate = DateAt(0)],
     [ValidEventBody EXCEPT !.endDate = DateAt(50)],
     [ValidEventBody EXCEPT !.type = "IN_PERSON"],
     [ValidEventBody EXCEPT !.meetingLink = ""]}

\* Lines 148-218: the status createEvent answers before it reaches the store,
\* 0 when every check passes.
createEventRejects(userId, body) ==
    IF roleOf(userId) # "COLLABORATOR" THEN 403
    ELSE IF ~validateRequiredFields(body, {"title", "description", "type", "category",
                                           "startDate", "endDate"}).valid THEN 400
    ELSE IF ~isFutureDate(body.startDate) THEN 400
    ELSE IF body.endDate.kind = "date" /\ body.startDate.kind = "date"
            /\ body.endDate.t <= body.startDate.t THEN 400
    ELSE IF body.type \in {"IN_PERSON", "HYBRID"} /\ body.location = "" THEN 400
    ELSE IF body.type \in {"ONLINE", "HYBRID"} /\ body.meetingLink = "" THEN 400
    ELSE 0

\* POST /events, lines 146-264: one store call, prisma.event.create.
CreateEvent(userId, body) ==
    /\ createEventRejects(userId, body) = 0
    /\ body.endDate.kind = "date"
    /\ FreeEventIds # {}
    /\ LET id == CHOOSE i \in FreeEventIds : \A j \in FreeEventIds : i <= j
       IN  events' = events \cup
               {[id |-> id, capacity |-> body.capacity,
                 waitlistEnabled |-> body.waitlistEnabled,
                 organizerId |-> userId, isPublished |-> FALSE]}
    /\ UNCHANGED <<registrations, evReq, nonEventVars>>

\* PUT /admin/events/:id/publish (admin controller, lines 210-223):
\* prisma.event.update({ where: { id }, data: { isPublished: true } }).
publishEvent(id) ==
    /\ \E e \in events : e.id = id
    /\ events' = {IF e.id = id THEN [e EXCEPT !.isPublished = TRUE] ELSE e : e \in events}

PublishEvent(id) ==
    /\ publishEvent(id)
    /\ UNCHANGED <<registrations, evReq, nonEventVars>>

IdleEventRequest ==
    [pc |-> "idle", op |-> "", userId |-> 0, id |-> 0, event |-> {}, count |-> 0,
     regStatus |-> "", status |-> 0, isFull |-> FALSE, spotsLeft |-> {}]

EventRequestDone(r, status) ==
    evReq' = [evReq EXCEPT ![r].pc = "done", ![r].status = status]

(***************************************************************************)
(* POST /events/:id/register                                               *)
(***************************************************************************)
\* Lines 272-302: role check, then the event with its count of REGISTERED
\* registrations (first store call).
RegisterForEventRead(r, userId, id) ==
    /\ evReq[r].pc = "idle"
    /\ UNCHANGED <<events, registrations, nonEventVars>>
    /\ LET req == [evReq EXCEPT ![r].op = "registerForEvent", ![r].userId = userId,
                               ![r].id = id]
       IN  IF roleOf(userId) # "MOTHER"
             THEN evReq' = [req EXCEPT ![r].pc = "done", ![r].status = 403]
           ELSE IF findEvent(id) = {}
             THEN evReq' = [req EXCEPT ![r].pc = "done", ![r].status = 404]
           ELSE evReq' = [req EXCEPT ![r].pc = "existing", ![r].event = findEvent(id),
                                     ![r].count = registeredCount(id)]

\* The comparison with > in place of >=.
capacityStatus_admits_at_capacity(event, count) ==
    IF event.capacity # {} /\ event.capacity # {0} /\ \A c \in event.capacity : count > c
      THEN IF event.waitlistEnabled THEN "WAITLIST" ELSE ""
      ELSE "REGISTERED"

\* Lines 321-334: the status the registration gets from the event and the
\* count read: "" when the event is full and has no waitlist.
capacityStatus(event, count) ==
    IF event.capacity # {} /\ event.capacity # {0} /\ \A c \in event.capacity : count >= c
      THEN IF event.waitlistEnabled THEN "WAITLIST" ELSE ""
      ELSE "REGISTERED"

\* Lines 304-334: the look-up of the mother's registration (second store
\* call), then the capacity check on the count read before.
RegisterForEventExisting(r) ==
    /\ evReq[r].pc = "existing"
    /\ UNCHANGED <<events, registrations, nonEventVars>>
    /\ IF findRegistration(evReq[r].id, evReq[r].userId) # {}
         THEN EventRequestDone(r, 409)
         ELSE \E e \in evReq[r].event :
                 LET st == capacityStatus(e, evReq[r].count)
                 IN  IF st = ""
                       THEN EventRequestDone(r, 400)
                       ELSE evReq' = [evReq EXCEPT ![r].pc = "insert", ![r].regStatus = st]

\* The insert the handler does not do: one that decides again, on the count
\* at the time of the insert, and refuses when the event has filled up.
RegisterForEventInsert_conditional(r) ==
    /\ evReq[r].pc = "insert"
    /\ UNCHANGED <<events, nonEventVars>>
    /\ IF ~eventId_userId(evReq[r].id, evReq[r].userId)
         THEN /\ EventRequestDone(r, 500)
              /\ UNCHANGED registrations
         ELSE \E e \in evReq[r].event :
                 LET st == capacityStatus(e, registeredCount(evReq[r].id))
                 IN  IF st = ""
                       THEN /\ EventRequestDone(r, 400)
                            /\ UNCHANGED registrations
                       ELSE /\ registrations' = registrations \cup
                                   {[eventId |-> evReq[r].id, userId |-> evReq[r].userId,
                                     status |-> st]}
                            /\ EventRequestDone(r, 201)

\* Lines 336-359: prisma.eventRegistration.create (third store call); a
\* duplicate (eventId, userId) makes it throw and the catch answers 500.
RegisterForEventInsert(r) ==
    /\ evReq[r].pc = "insert"
    /\ UNCHANGED <<events, nonEventVars>>
    /\ IF ~eventId_userId(evReq[r].id, evReq[r].userId)
         THEN /\ EventRequestDone(r, 500)
              /\ UNCHANGED registrations
         ELSE /\ registrations' = registrations \cup
                     {[eventId |-> evReq[r].id, userId |-> evReq[r].userId,
                       status |-> evReq[r].regStatus]}
              /\ EventRequestDone(r, 201)

(***************************************************************************)
(* DELETE /events/:id/register                                             *)
(***************************************************************************)
\* Lines 368-391: role check and the look-up of the registration.
CancelRegistrationRead(r, userId, id) ==
    /\ evReq[r].pc = "idle"
    /\ UNCHANGED <<events, registrations, nonEventVars>>
    /\ LET req == [evReq EXCEPT ![r].op = "cancelRegistration", ![r].userId = userId,
                               ![r].id = id]
       IN  IF roleOf(userId) # "MOTHER"
             THEN evReq' = [req EXCEPT ![r].pc = "done", ![r].status = 403]
           ELSE IF findRegistration(id, userId) = {}
             THEN evReq' = [req EXCEPT ![r].pc = "done", ![r].status = 404]
           ELSE evReq' = [req EXCEPT ![r].pc = "cancel"]

\* A cancellation that also promotes a waiting mother of the event.
CancelRegistrationUpdate_promoting(r) ==
    /\ evReq[r].pc = "cancel"
    /\ UNCHANGED <<events, nonEventVars>>
    /\ LET cancelled ==
               {IF g.eventId = evReq[r].id /\ g.userId = evReq[r].userId
                  THEN [g EXCEPT !.status = "CANCELLED"] ELSE g : g \in registrations}
           waiting == {g \in cancelled : g.eventId = evReq[r].id /\ g.status = "WAITLIST"}
       IN  IF waiting = {}
             THEN registrations' = cancelled
             ELSE LET first == CHOOSE g \in waiting : \A h \in waiting : g.userId <= h.userId
                  IN  registrations' = (cancelled \ {first}) \cup
                                           {[first EXCEPT !.status = "REGISTERED"]}
    /\ EventRequestDone(r, 200)

\* Lines 393-410: the update to CANCELLED.
CancelRegistrationUpdate(r) ==
    /\ evReq[r].pc = "cancel"
    /\ UNCHANGED <<events, nonEventVars>>
    /\ registrations' =
           {IF g.eventId = evReq[r].id /\ g.userId = evReq[r].userId
              THEN [g EXCEPT !.status = "CANCELLED"] ELSE g : g \in registrations}
    /\ EventRequestDone(r, 200)

(***************************************************************************)
(* GET /events/:id                                                         *)
(***************************************************************************)
\* Line 124: event.capacity ? registeredCount >= event.capacity : false; a
\* capacity of 0 is falsy like one that is not set.
isFull(event, count) ==
    IF event.capacity # {} /\ event.capacity # {0}
      THEN \A c \in event.capacity : count >= c
      ELSE FALSE

\* Line 125: event.capacity ? Math.max(0, event.capacity - registeredCount)
\* : null (the empty set).
spotsLeft(event, count) ==
    IF event.capacity # {} /\ event.capacity # {0}
      THEN {Max(0, c - count) : c \in event.capacity}
      ELSE {}

\* Lines 75-140: one read of the published event with its count of
\* REGISTERED rows; the look-up of the caller's registration only fills
\* data.registration.
GetEventById(r, id) ==
    /\ evReq[r].pc = "idle"
    /\ UNCHANGED <<events, registrations, nonEventVars>>
    /\ LET req == [evReq EXCEPT ![r].op = "getEventById", ![r].id = id,
                               ![r].pc = "done"]
       IN  IF findEvent(id) = {}
             THEN evReq' = [req EXCEPT ![r].status = 404]
             ELSE \E e \in findEvent(id) :
                     evReq' = [req EXCEPT ![r].status = 200, ![r].event = {e},
                                          ![r].count = registeredCount(id),
                                          ![r].isFull = isFull(e, registeredCount(id)),
                                          ![r].spotsLeft = spotsLeft(e, registeredCount(id))]

EventRespond(r) ==
    /\ evReq[r].pc = "done"
    /\ evReq' = [evReq EXCEPT ![r] = IdleEventRequest]
    /\ UNCHANGED <<events, registrations, nonEventVars>>

(***************************************************************************)
(* middleware/auth.js: authenticate and authorize.  A header is a sequence *)
(* of characters in which a token stands as one symbol.                    *)
(***************************************************************************)
Bearer_ == <<"B", "e", "a", "r", "e", "r", " ">>

startsWith(s, prefix) ==
    Len(s) >= Len(prefix) /\ SubSeq(s, 1, Len(prefix)) = prefix

\* String.prototype.split(' ')
RECURSIVE split(_)
split(s) ==
    IF \A i \in 1..Len(s) : s[i] # " "
      THEN <<s>>
      ELSE LET i == CHOOSE k \in 1..Len(s) :
                        s[k] = " " /\ \A j \in 1..(k - 1) : s[j] # " "
           IN  <<SubSeq(s, 1, i - 1)>> \o split(SubSeq(s, i + 1, Len(s)))

\* The tokens presented to the server.  A token signed with the server's key
\* need not come from login: the role of "jwt.stale" is no longer the role of
\* its account, and the account of "jwt.gone" does not exist.
Jwt ==
    [t \in {"jwt.admin", "jwt.mother", "jwt.collaborator", "jwt.expired",
            "jwt.forged", "jwt.gone", "jwt.stale"} |->
        CASE t = "jwt.admin" ->
               generateToken([userId |-> 1, email |-> EmailAdmin, role |-> "ADMIN"])
          [] t = "jwt.mother" ->
               generateToken([userId |-> 2, email |-> EmailA, role |-> "MOTHER"])
          [] t = "jwt.collaborator" ->
               generateToken([userId |-> 3, email |-> EmailB, role |-> "COLLABORATOR"])
          [] t = "jwt.expired" ->
               [generateToken([userId |-> 1, email |-> EmailAdmin, role |-> "ADMIN"])
                   EXCEPT !.expired = TRUE]
          [] t = "jwt.forged" ->
               [generateToken([userId |-> 1, email |-> EmailAdmin, role |-> "ADMIN"])
                   EXCEPT !.signed = FALSE]
          [] t = "jwt.gone" ->
               generateToken([userId |-> 9, email |-> EmailAdmin, role |-> "ADMIN"])
          [] t = "jwt.stale" ->
               generateToken([userId |-> 2, email |-> EmailA, role |-> "ADMIN"])]

\* utils/jwt.js: the claims of a token signed with the key and not expired;
\* the empty set stands for the exception thrown otherwise.
verifyToken(token) ==
    IF /\ Len(token) = 1
       /\ token[1] \in DOMAIN Jwt
       /\ Jwt[token[1]].signed
       /\ ~Jwt[token[1]].expired
      THEN {Jwt[token[1]]}
      ELSE {}

\* The Authorization headers sent, each with what it is by construction:
\* kind says whether it is a well-formed header carrying a verifiable token
\* of an existing account, and subject names that account.
HeaderCases ==
    {[kind |-> "absent", subject |-> 0, value |-> {}],
     [kind |-> "malformed", subject |-> 0,
      value |-> {<<"b", "e", "a", "r", "e", "r", " ", "jwt.admin">>}],
     [kind |-> "malformed", subject |-> 0,
      value |-> {<<"B", "e", "a", "r", "e", "r", "jwt.admin">>}],
     [kind |-> "malformed", subject |-> 0, value |-> {<<"jwt.admin">>}],
     [kind |-> "malformed", subject |-> 0, value |-> {Bearer_ \o <<" ", "jwt.admin">>}],
     [kind |-> "malformed", subject |-> 0, value |-> {Bearer_}],
     [kind |-> "invalid", subject |-> 0, value |-> {Bearer_ \o <<"jwt.forged">>}],
     [kind |-> "invalid", subject |-> 0, value |-> {Bearer_ \o <<"x", "y">>}],
     [kind |-> "expired", subject |-> 0, value |-> {Bearer_ \o <<"jwt.expired">>}],
     [kind |-> "no account", subject |-> 0, value |-> {Bearer_ \o <<"jwt.gone">>}],
     [kind |-> "ok", subject |-> 1, value |-> {Bearer_ \o <<"jwt.admin">>}],
     [kind |-> "ok", subject |-> 1, value |-> {Bearer_ \o <<"jwt.admin", " ", "x">>}],
     [kind |-> "ok", subject |-> 2, value |-> {Bearer_ \o <<"jwt.mother">>}],
     [kind |-> "ok", subject |-> 2, value |-> {Bearer_ \o <<"jwt.stale">>}],
     [kind |-> "ok", subject |-> 3, value |-> {Bearer_ \o <<"jwt.collaborator">>}]}

NoIdentity == [status |-> 401, user |-> {}, userId |-> 0, userRole |-> ""]

\* Attaching the role the token carries instead of the role of the account.
attach_role_of_token(user, decoded) ==
    [status |-> 0, user |-> {user}, userId |-> user.id, userRole |-> decoded.role]

\* Lines 41-44: req.user, req.userId, req.userRole.
attach(user, decoded) ==
    [status |-> 0, user |-> {user}, userId |-> user.id, userRole |-> user.role]

\* Lines 7-53: status 401, or status 0 (next) with the identity attached.
authenticate(authHeader) ==
    IF authHeader = {} \/ \E h \in authHeader : ~startsWith(h, Bearer_)
      THEN NoIdentity
      ELSE LET token == (CHOOSE h \in authHeader : TRUE)
               decoded == verifyToken(split(token)[2])
           IN  IF decoded = {}
                 THEN NoIdentity
                 ELSE LET d == CHOOSE c \in decoded : TRUE
                      IN  IF findUserById(d.userId) = {}
                            THEN NoIdentity
                            ELSE attach(CHOOSE u \in findUserById(d.userId) : TRUE, d)

\* A guard that lets every authenticated account through.
authorize_any_role(roles, user) ==
    IF user = {} THEN 401 ELSE 0

\* Lines 59-77: authorize(...roles) on a request with req.user = user; 0 is next().
authorize(roles, user) ==
    IF user = {} THEN 401
    ELSE IF \A u \in user : u.role \notin roles THEN 403
    ELSE 0

isMother(user) == authorize({"MOTHER"}, user)
isCollaborator(user) == authorize({"COLLABORATOR"}, user)
isAdmin(user) == authorize({"ADMIN"}, user)
isCollaboratorOrAdmin(user) == authorize({"COLLABORATOR", "ADMIN"}, user)

(***************************************************************************)
(* The guarded routes: /admin (authenticate, isAdmin) and /auth/me         *)
(* (authenticate).                                                         *)
(***************************************************************************)
AdminRoutes ==
    {"getStats", "getReports", "updateReportStatus", "verifyCollaborator",
     "publishClass", "publishEvent"}

ReportStatuses == {"REVIEWED", "RESOLVED", "DISMISSED"}

\* The requests sent: route, :id, body.status.
RouteRequests ==
    {[route |-> rt, id |-> 0, status |-> ""] : rt \in {"getStats", "getReports", "me"}}
    \cup
    {[route |-> "updateReportStatus", id |-> i, status |-> st] :
        i \in {1, 2}, st \in {"RESOLVED", "PENDING"}}
    \cup
    {[route |-> rt, id |-> i, status |-> ""] :
        rt \in {"publishClass", "publishEvent"}, i \in {1, 2}}
    \cup
    {[route |-> "verifyCollaborator", id |-> i, status |-> ""] : i \in {2, 3}}

IdleAuthRequest ==
    [pc |-> "idle", route |-> "", id |-> 0, body |-> "",
     header |-> [kind |-> "absent", subject |-> 0, value |-> {}],
     user |-> {}, userId |-> 0, userRole |-> "", status |-> 0, handlerRan |-> FALSE,
     videoUrl |-> FALSE]

\* authenticate on an incoming request: 401, or on to the router.
Authenticate(r, q, header) ==
    /\ authReq[r].pc = "idle"
    /\ LET a == authenticate(header.value)
       IN  authReq' = [authReq EXCEPT ![r] =
               [pc |-> IF a.status = 401 THEN "done" ELSE "authenticated",
                route |-> q.route, id |-> q.id, body |-> q.status, header |-> header,
                user |-> a.user, userId |-> a.userId, userRole |-> a.userRole,
                status |-> a.status, handlerRan |-> FALSE, videoUrl |-> FALSE]]
    /\ UNCHANGED <<reports, classes, verified, nonAdminVars>>

AuthAnswer(r, status, ran) ==
    authReq' = [authReq EXCEPT ![r].pc = "done", ![r].status = status,
                               ![r].handlerRan = ran]

\* router.use(authenticate, isAdmin): the admin router stops a request that
\* isAdmin does not pass.
AdminRefuse(r) ==
    /\ authReq[r].pc = "authenticated"
    /\ authReq[r].route \in AdminRoutes
    /\ isAdmin(authReq[r].user) # 0
    /\ AuthAnswer(r, isAdmin(authReq[r].user), FALSE)
    /\ UNCHANGED <<reports, classes, verified, nonAdminVars>>

AdminPasses(r, route) ==
    /\ authReq[r].pc = "authenticated"
    /\ authReq[r].route = route
    /\ isAdmin(authReq[r].user) = 0

\* GET /admin/stats and GET /admin/reports read the store.
GetStats(r) ==
    /\ AdminPasses(r, "getStats")
    /\ AuthAnswer(r, 200, TRUE)
    /\ UNCHANGED <<reports, classes, verified, nonAdminVars>>

GetReports(r) ==
    /\ AdminPasses(r, "getReports")
    /\ AuthAnswer(r, 200, TRUE)
    /\ UNCHANGED <<reports, classes, verified, nonAdminVars>>

\* PUT /admin/reports/:id; updating a row that does not exist throws.
UpdateReportStatus(r) ==
    /\ AdminPasses(r, "updateReportStatus")
    /\ UNCHANGED <<classes, verified, nonAdminVars>>
    /\ IF authReq[r].body \notin ReportStatuses
         THEN AuthAnswer(r, 400, TRUE) /\ UNCHANGED reports
       ELSE IF \A p \in reports : p.id # authReq[r].id
         THEN AuthAnswer(r, 500, TRUE) /\ UNCHANGED reports
       ELSE /\ reports' = {IF p.id = authReq[r].id
                             THEN [p EXCEPT !.status = authReq[r].body] ELSE p :
                           p \in reports}
            /\ AuthAnswer(r, 200, TRUE)

\* PUT /admin/collaborators/:id/verify
VerifyCollaborator(r) ==
    /\ AdminPasses(r, "verifyCollaborator")
    /\ UNCHANGED <<reports, classes, nonAdminVars>>
    /\ IF \A p \in profiles : ~(p.kind = "collaborator" /\ p.userId = authReq[r].id)
         THEN AuthAnswer(r, 500, TRUE) /\ UNCHANGED verified
         ELSE /\ verified' = verified \cup {authReq[r].id}
              /\ AuthAnswer(r, 200, TRUE)

\* PUT /admin/classes/:id/publish
PublishClass(r) ==
    /\ AdminPasses(r, "publishClass")
    /\ UNCHANGED <<reports, verified, nonAdminVars>>
    /\ IF \A c \in classes : c.id # authReq[r].id
         THEN AuthAnswer(r, 500, TRUE) /\ UNCHANGED classes
         ELSE /\ classes' = {IF c.id = authReq[r].id
                               THEN [c EXCEPT !.isPublished = TRUE] ELSE c :
                             c \in classes}
              /\ AuthAnswer(r, 200, TRUE)

\* PUT /admin/events/:id/publish
AdminPublishEvent(r) ==
    /\ AdminPasses(r, "publishEvent")
    /\ UNCHANGED <<reports, classes, verified, registrations, evReq,
                   accountVars, pregnancyVars, communityVars, notificationVars, classVars>>
    /\ IF \A e \in events : e.id # authReq[r].id
         THEN AuthAnswer(r, 500, TRUE) /\ UNCHANGED events
         ELSE publishEvent(authReq[r].id) /\ AuthAnswer(r, 200, TRUE)

\* GET /auth/me: the account of req.userId, 404 when it is gone.
GetCurrentUser(r) ==
    /\ authReq[r].pc = "authenticated"
    /\ authReq[r].route = "me"
    /\ AuthAnswer(r, IF findUserById(authReq[r].userId) = {} THEN 404 ELSE 200, TRUE)
    /\ UNCHANGED <<reports, classes, verified, nonAdminVars>>

AuthRespond(r) ==
    /\ authReq[r].pc = "done"
    /\ authReq' = [authReq EXCEPT ![r] = IdleAuthRequest]
    /\ UNCHANGED <<reports, classes, verified, nonAdminVars>>

(***************************************************************************)
(* The classes router (classes.routes.js, lines 14-32): its layers in the  *)
(* order they are mounted.  A request runs through the layers before the   *)
(* one that answers it.                                                    *)
(***************************************************************************)
classesRouter ==
    <<"getClasses", "getClassById", "authenticate", "enrollInClass", "getMyEnrollments",
      "updateWatchHistory", "addReview", "createClass", "addVideo">>

\* Whether router.use(authenticate) stands before the handler.
authenticateRuns(router, handler) ==
    \E i, j \in 1..Len(router) :
        i < j /\ router[i] = "authenticate" /\ router[j] = handler

\* Lines 66-67: prisma.class.findUnique({ where: { id, isPublished: true } }).
findPublishedClass(id) == {c \in classes : c.id = id /\ c.isPublished}

\* GET /classes/:id (classes controller, lines 62-145): the videos are
\* selected with videoUrl: req.user ? true : false.  The look-up of the
\* enrolment that follows only fills data.enrollment.
GetClassById(r, id, header) ==
    /\ authReq[r].pc = "idle"
    /\ LET a == IF authenticateRuns(classesRouter, "getClassById")
                  THEN authenticate(header.value)
                  ELSE [NoIdentity EXCEPT !.status = 0]
           found == findPublishedClass(id)
       IN  authReq' = [authReq EXCEPT ![r] =
               [pc |-> "done", route |-> "getClassById", id |-> id, body |-> "",
                header |-> header, user |-> a.user, userId |-> a.userId,
                userRole |-> a.userRole,
                status |-> IF a.status = 401 THEN 401
                           ELSE IF found = {} THEN 404 ELSE 200,
                handlerRan |-> a.status # 401,
                videoUrl |-> a.status # 401 /\ found # {} /\ a.user # {}]]
    /\ UNCHANGED <<reports, classes, verified, nonAdminVars>>

(***************************************************************************)
(* Community: posts, comments and reactions.  (postId, userId) is a unique *)
(* key of the reactions table: toggleReaction looks rows up by             *)
(* postId_userId.  Comments and reactions belong to a post (the post is    *)
(* read with them), so a row for a post that does not exist is refused.    *)
(***************************************************************************)
findPost(id) == {p \in posts : p.id = id}

findReaction(postId, userId) ==
    {x \in reactions : x.postId = postId /\ x.userId = userId}

postId_userId(postId, userId) == findReaction(postId, userId) = {}

reactionCount(postId) == Cardinality({x \in reactions : x.postId = postId})

FreePostIds == PostIds \ {p.id : p \in posts}
FreeCommentIds == CommentIds \ {c.id : c \in comments}

ReactionTypes == {"HEART", "SUPPORT", "CELEBRATE"}

\* The callers of the community routes and the ids they address; the last
\* post id is one no post has.
CommunityUsers == {u.id : u \in users}
MissingPostId == 2
AddressedPostIds == PostIds \cup {MissingPostId}

CommunityMothers == {2, 3}

NoLog == [calls |-> 0, present |-> FALSE, count |-> 0, calm |-> FALSE]

IdleCommunityRequest ==
    [pc |-> "idle", op |-> "", userId |-> 0, id |-> 0, type |-> "", existing |-> {},
     count |-> 0, calm |-> FALSE, status |-> 0, data |-> {}]

CommunityEmpty ==
    /\ posts = {}
    /\ reactions = {}
    /\ comments = {}
    /\ commReq = [r \in CommReqIds |-> IdleCommunityRequest]
    /\ reactionLog = [k \in PostIds \X CommunityMothers |-> NoLog]
    /\ groups = {}
    /\ groupMembers = {}

CommunityDone(r, status) ==
    commReq' = [commReq EXCEPT ![r].pc = "done", ![r].status = status]

\* POST /community/posts, lines 525-580: one store call, prisma.post.create,
\* with groupId: groupId || null (the empty set is null).  The foreign key
\* refuses a group that does not exist.
CreatePostInGroup(userId, content, groupId) ==
    /\ roleOf(userId) = "MOTHER"
    /\ validateRequiredFields([content |-> content], {"content"}).valid
    /\ groupId \subseteq {g.id : g \in groups}
    /\ FreePostIds # {}
    /\ LET id == CHOOSE i \in FreePostIds : \A j \in FreePostIds : i <= j
       IN  posts' = posts \cup {[id |-> id, authorId |-> userId, deleted |-> FALSE,
                                 groupId |-> groupId]}
    /\ UNCHANGED <<reactions, comments, commReq, reactionLog, groups, groupMembers,
                   nonCommunityVars>>

\* A post outside the groups.
CreatePost(userId, content) == CreatePostInGroup(userId, content, {})

(***************************************************************************)
(* DELETE /community/posts/:id                                             *)
(***************************************************************************)
\* The check that lets everybody delete.
mayDeletePost_anyone(post, userId) == TRUE

\* Line 602: the author (by mother profile) or an administrator.
mayDeletePost(post, userId) ==
    ~(~(roleOf(userId) = "MOTHER" /\ post.authorId = userId) /\ roleOf(userId) # "ADMIN")

\* Lines 586-607: the post (first store call) and the permission check.
DeletePostRead(r, userId, id) ==
    /\ commReq[r].pc = "idle"
    /\ UNCHANGED <<posts, reactions, comments, reactionLog, groups, groupMembers,
                   nonCommunityVars>>
    /\ LET req == [commReq EXCEPT ![r].op = "deletePost", ![r].userId = userId,
                                 ![r].id = id]
       IN  IF findPost(id) = {}
             THEN commReq' = [req EXCEPT ![r].pc = "done", ![r].status = 404]
           ELSE IF \E p \in findPost(id) : ~mayDeletePost(p, userId)
             THEN commReq' = [req EXCEPT ![r].pc = "done", ![r].status = 403]
           ELSE commReq' = [req EXCEPT ![r].pc = "delete"]

\* Lines 609-618: the soft delete (second store call).
DeletePostUpdate(r) ==
    /\ commReq[r].pc = "delete"
    /\ posts' = {IF p.id = commReq[r].id THEN [p EXCEPT !.deleted = TRUE] ELSE p :
                 p \in posts}
    /\ CommunityDone(r, 200)
    /\ UNCHANGED <<reactions, comments, reactionLog, groups, groupMembers, nonCommunityVars>>

(***************************************************************************)
(* POST /community/posts/:id/comments                                      *)
(***************************************************************************)
\* Lines 633-682: one store call, prisma.comment.create; it throws for a post
\* that does not exist and the catch answers 500.
AddComment(r, userId, id, content) ==
    /\ commReq[r].pc = "idle"
    /\ UNCHANGED <<posts, reactions, reactionLog, groups, groupMembers, nonCommunityVars>>
    /\ LET req == [commReq EXCEPT ![r].op = "addComment", ![r].userId = userId,
                                 ![r].id = id, ![r].pc = "done"]
       IN  IF roleOf(userId) # "MOTHER"
             THEN commReq' = [req EXCEPT ![r].status = 403] /\ UNCHANGED comments
           ELSE IF ~validateRequiredFields([content |-> content], {"content"}).valid
             THEN commReq' = [req EXCEPT ![r].status = 400] /\ UNCHANGED comments
           ELSE IF findPost(id) = {}
             THEN commReq' = [req EXCEPT ![r].status = 500] /\ UNCHANGED comments
           ELSE /\ FreeCommentIds # {}
                /\ comments' = comments \cup
                       {[id |-> CHOOSE i \in FreeCommentIds : TRUE, postId |-> id,
                         authorId |-> userId]}
                /\ commReq' = [req EXCEPT ![r].status = 201]

(***************************************************************************)
(* POST /community/posts/:id/react                                         *)
(***************************************************************************)
\* Lines 690-715: role and type checks, then the look-up of the caller's
\* reaction (first store call).  count and calm are history: the number of
\* reactions on the post when the call began, and whether no other caller has
\* written a reaction of the post since.
ToggleReactionRead(r, userId, id, type) ==
    /\ commReq[r].pc = "idle"
    /\ UNCHANGED <<posts, reactions, comments, reactionLog, groups, groupMembers,
                   nonCommunityVars>>
    /\ LET req == [commReq EXCEPT ![r].op = "toggleReaction", ![r].userId = userId,
                                 ![r].id = id, ![r].type = type]
       IN  IF roleOf(userId) # "MOTHER"
             THEN commReq' = [req EXCEPT ![r].pc = "done", ![r].status = 403]
           ELSE IF type \notin ReactionTypes
             THEN commReq' = [req EXCEPT ![r].pc = "done", ![r].status = 400]
           ELSE commReq' = [req EXCEPT ![r].pc = "toggle",
                                       ![r].existing = findReaction(id, userId),
                                       ![r].count = reactionCount(id),
                                       ![r].calm = TRUE]

\* A toggle that adds whatever it found.
toggleAction_always_adds(existing) == "added"

\* Lines 717-748: remove the reaction found, add one when none was found.
toggleAction(existing) == IF existing # {} THEN "removed" ELSE "added"

\* The history after the write of request r: the call is the caller's previous
\* one on the post (if the post exists), and every other caller's pair of
\* calls has been disturbed if the write changed the reactions.
LogToggle(r, changed) ==
    /\ reactionLog' =
          [k \in DOMAIN reactionLog |->
              IF k = <<commReq[r].id, commReq[r].userId>>
                THEN [calls |-> IF findPost(commReq[r].id) = {} THEN 0
                                 ELSE Min(2, reactionLog[k].calls + 1),
                      present |-> commReq[r].existing # {},
                      count |-> commReq[r].count, calm |-> commReq[r].calm]
              ELSE IF changed /\ k[1] = commReq[r].id
                THEN [reactionLog[k] EXCEPT !.calm = FALSE]
              ELSE reactionLog[k]]

ToggleDone(r, status, changed) ==
    commReq' = [q \in CommReqIds |->
                   IF q = r THEN [commReq[r] EXCEPT !.pc = "done", !.status = status]
                   ELSE IF changed /\ commReq[q].id = commReq[r].id
                     THEN [commReq[q] EXCEPT !.calm = FALSE]
                   ELSE commReq[q]]

\* Lines 717-756: the delete or the create (second store call).  Deleting a
\* row that is gone, creating a second row for (postId, userId) and creating
\* a row for a post that does not exist throw, and the catch answers 500.
ToggleReactionWrite(r) ==
    /\ commReq[r].pc = "toggle"
    /\ UNCHANGED <<posts, comments, groups, groupMembers, nonCommunityVars>>
    /\ LET id == commReq[r].id
           userId == commReq[r].userId
       IN  IF toggleAction(commReq[r].existing) = "removed"
             THEN IF findReaction(id, userId) = {}
                    THEN /\ UNCHANGED reactions
                         /\ ToggleDone(r, 500, FALSE)
                         /\ LogToggle(r, FALSE)
                    ELSE /\ reactions' = reactions \ findReaction(id, userId)
                         /\ ToggleDone(r, 200, TRUE)
                         /\ LogToggle(r, TRUE)
             ELSE IF findPost(id) = {} \/ ~postId_userId(id, userId)
                    THEN /\ UNCHANGED reactions
                         /\ ToggleDone(r, 500, FALSE)
                         /\ LogToggle(r, FALSE)
                    ELSE /\ reactions' = reactions \cup
                                {[postId |-> id, userId |-> userId,
                                  type |-> commReq[r].type]}
                         /\ ToggleDone(r, 201, TRUE)
                         /\ LogToggle(r, TRUE)

CommunityRespond(r) ==
    /\ commReq[r].pc = "done"
    /\ commReq' = [commReq EXCEPT ![r] = IdleCommunityRequest]
    /\ UNCHANGED <<posts, reactions, comments, reactionLog, groups, groupMembers,
                   nonCommunityVars>>

(***************************************************************************)
(* Notifications (router.use(authenticate), then the handlers).            *)
(***************************************************************************)
\* PUT /notifications/:id/read, lines 50-71: one store call,
\* prisma.notification.update({ where: { id }, data: { isRead: true } }); it
\* throws when no row has the id and the catch answers 500.
MarkAsRead(r) ==
    /\ authReq[r].pc = "authenticated"
    /\ authReq[r].route = "markAsRead"
    /\ UNCHANGED <<reports, classes, verified, accountVars, pregnancyVars, eventVars,
                   communityVars, userReq, classVars>>
    /\ IF \A n \in notifications : n.id # authReq[r].id
         THEN AuthAnswer(r, 500, TRUE) /\ UNCHANGED notifications
         ELSE /\ notifications' = {IF n.id = authReq[r].id
                                     THEN [n EXCEPT !.isRead = TRUE] ELSE n :
                                   n \in notifications}
              /\ AuthAnswer(r, 200, TRUE)

\* PUT /notifications/read-all, lines 77-106: the unread notifications of the
\* calling mother (prisma.notification.updateMany).
MarkAllAsRead(r) ==
    /\ authReq[r].pc = "authenticated"
    /\ authReq[r].route = "markAllAsRead"
    /\ UNCHANGED <<reports, classes, verified, accountVars, pregnancyVars, eventVars,
                   communityVars, userReq, classVars>>
    /\ IF authReq[r].userRole # "MOTHER"
         THEN AuthAnswer(r, 403, TRUE) /\ UNCHANGED notifications
         ELSE /\ notifications' = {IF n.userId = authReq[r].userId
                                     THEN [n EXCEPT !.isRead = TRUE] ELSE n :
                                   n \in notifications}
              /\ AuthAnswer(r, 200, TRUE)

(***************************************************************************)
(* Groups and the feed.  (groupId, userId) is a unique key of              *)
(* group_members.  A caller without a mother profile filters members by an *)
(* undefined userId, which the store reads as no condition on the member.  *)
(***************************************************************************)
\* The requests of the community domain address one group.
GroupIds == {1}
FreeGroupIds == GroupIds \ {g.id : g \in groups}

groupId_userId(groupId, userId) ==
    {m \in groupMembers : m.groupId = groupId /\ m.userId = userId}

\* POST /community/groups, lines 202-259: one store call, prisma.group.create
\* with the creator as first member.
CreateGroup(userId, isPublic) ==
    /\ roleOf(userId) = "MOTHER"
    /\ FreeGroupIds # {}
    /\ LET id == CHOOSE i \in FreeGroupIds : \A j \in FreeGroupIds : i <= j
       IN  /\ groups' = groups \cup {[id |-> id, isPublic |-> isPublic,
                                      createdById |-> userId]}
           /\ groupMembers' = groupMembers \cup {[groupId |-> id, userId |-> userId]}
    /\ UNCHANGED <<posts, reactions, comments, commReq, reactionLog, nonCommunityVars>>

\* POST /community/groups/:id/join, lines 265-286: role check and the group
\* (first store call).
JoinGroupRead(r, userId, id) ==
    /\ commReq[r].pc = "idle"
    /\ UNCHANGED <<posts, reactions, comments, reactionLog, groups, groupMembers,
                   nonCommunityVars>>
    /\ LET req == [commReq EXCEPT ![r].op = "joinGroup", ![r].userId = userId,
                                 ![r].id = id]
       IN  IF roleOf(userId) # "MOTHER"
             THEN commReq' = [req EXCEPT ![r].pc = "done", ![r].status = 403]
           ELSE IF \A g \in groups : g.id # id
             THEN commReq' = [req EXCEPT ![r].pc = "done", ![r].status = 404]
           ELSE commReq' = [req EXCEPT ![r].pc = "member"]

\* Lines 288-303: the look-up of the membership (second store call).
JoinGroupExisting(r) ==
    /\ commReq[r].pc = "member"
    /\ UNCHANGED <<posts, reactions, comments, reactionLog, groups, groupMembers,
                   nonCommunityVars>>
    /\ IF groupId_userId(commReq[r].id, commReq[r].userId) # {}
         THEN CommunityDone(r, 409)
         ELSE commReq' = [commReq EXCEPT ![r].pc = "join"]

\* Lines 305-327: prisma.groupMember.create (third store call); the unique
\* key refuses a second row and the catch answers 500.
JoinGroupInsert(r) ==
    /\ commReq[r].pc = "join"
    /\ UNCHANGED <<posts, reactions, comments, reactionLog, groups, nonCommunityVars>>
    /\ IF groupId_userId(commReq[r].id, commReq[r].userId) # {}
         THEN CommunityDone(r, 500) /\ UNCHANGED groupMembers
         ELSE /\ groupMembers' = groupMembers \cup
                     {[groupId |-> commReq[r].id, userId |-> commReq[r].userId]}
              /\ CommunityDone(r, 200)

\* POST /community/groups/:id/leave, lines 333-372: one store call,
\* prisma.groupMember.delete; P2025 (no such row) is answered 404.
LeaveGroup(r, userId, id) ==
    /\ commReq[r].pc = "idle"
    /\ UNCHANGED <<posts, reactions, comments, reactionLog, groups, nonCommunityVars>>
    /\ LET req == [commReq EXCEPT ![r].op = "leaveGroup", ![r].userId = userId,
                                 ![r].id = id, ![r].pc = "done"]
       IN  IF roleOf(userId) # "MOTHER"
             THEN commReq' = [req EXCEPT ![r].status = 403] /\ UNCHANGED groupMembers
           ELSE IF groupId_userId(id, userId) = {}
             THEN commReq' = [req EXCEPT ![r].status = 404] /\ UNCHANGED groupMembers
           ELSE /\ groupMembers' = groupMembers \ groupId_userId(id, userId)
                /\ commReq' = [req EXCEPT ![r].status = 200]

\* A filter that lets deleted posts through.
notDeleted_any(post) == TRUE

\* deletedAt: null (lines 387 and 462).
notDeleted(post) == ~post.deleted

\* members: { some: { userId: req.user.motherProfile?.id } } (lines 402-408 of getPosts).
someMember(groupId, userId) ==
    \E m \in groupMembers :
        /\ m.groupId = groupId
        /\ roleOf(userId) = "MOTHER" => m.userId = userId

\* Lines 386-411: the whereClause of getPosts; groupId is the query parameter,
\* the empty set when it is absent.
getPostsWhere(post, userId, groupId) ==
    /\ notDeleted(post)
    /\ IF groupId # {}
         THEN post.groupId = groupId
         ELSE \/ post.groupId = {}
              \/ \E g \in groups : g.id \in post.groupId /\ g.isPublic
              \/ \E g \in groups : g.id \in post.groupId /\ someMember(g.id, userId)

\* GET /community/posts, lines 382-451: one store call, prisma.post.findMany;
\* data holds the ids of the posts returned.
GetPosts(r, userId, groupId) ==
    /\ commReq[r].pc = "idle"
    /\ commReq' = [commReq EXCEPT ![r].op = "getPosts", ![r].userId = userId,
                                  ![r].existing = groupId, ![r].pc = "done",
                                  ![r].status = 200,
                                  ![r].data = {p.id : p \in {q \in posts :
                                                  getPostsWhere(q, userId, groupId)}}]
    /\ UNCHANGED <<posts, reactions, comments, reactionLog, groups, groupMembers,
                   nonCommunityVars>>

\* GET /community/posts/:id, lines 457-519: one store call,
\* prisma.post.findUnique({ where: { id, deletedAt: null } }).
GetPostById(r, userId, id) ==
    /\ commReq[r].pc = "idle"
    /\ LET req == [commReq EXCEPT ![r].op = "getPostById", ![r].userId = userId,
                                 ![r].id = id, ![r].pc = "done"]
           post == {p \in findPost(id) : notDeleted(p)}
       IN  IF post = {}
             THEN commReq' = [req EXCEPT ![r].status = 404]
             ELSE commReq' = [req EXCEPT ![r].status = 200, ![r].data = {id}]
    /\ UNCHANGED <<posts, reactions, comments, reactionLog, groups, groupMembers,
                   nonCommunityVars>>

(***************************************************************************)
(* Class reviews.  (classId, userId) is a unique key of class_reviews and  *)
(* of enrollments.  A rating average is kept as the fraction the code      *)
(* divides: [num, den].                                                    *)
(***************************************************************************)
NoRating == [num |-> 0, den |-> 1]

\* A class row before its first review.
Class(id, isPublished) ==
    [id |-> id, isPublished |-> isPublished, averageRating |-> NoRating, reviewCount |-> 0]

classId_userId(table, classId, userId) ==
    {x \in table : x.classId = classId /\ x.userId = userId}

reviewsOfClass(classId) == {x \in classReviews : x.classId = classId}

RECURSIVE sumOfRatings(_)
sumOfRatings(reviews) ==
    IF reviews = {} THEN 0
    ELSE LET x == CHOOSE y \in reviews : TRUE
         IN  x.rating + sumOfRatings(reviews \ {x})

\* Line 524: reviews.reduce((sum, r) => sum + r.rating, 0) / reviews.length.
avgRating(reviews) ==
    [num |-> sumOfRatings(reviews), den |-> Cardinality(reviews)]

IdleReviewRequest ==
    [pc |-> "idle", userId |-> 0, id |-> 0, rating |-> 0, reviews |-> {}, status |-> 0]

ClassesEmpty ==
    /\ enrollments = {}
    /\ classReviews = {}
    /\ reviewReq = [r \in ReviewReqIds |-> IdleReviewRequest]

ReviewDone(r, status) ==
    reviewReq' = [reviewReq EXCEPT ![r].pc = "done", ![r].status = status]

\* Lines 456-490: role check, rating check, look-up of the enrollment (first
\* store call).
AddReviewRead_upsert_first(r, userId, id, rating) ==
    /\ reviewReq[r].pc = "idle"
    /\ UNCHANGED <<enrollments, classes, reports, verified, authReq,
                   accountVars, pregnancyVars, eventVars, communityVars, notificationVars>>
    /\ LET req == [reviewReq EXCEPT ![r].userId = userId, ![r].id = id,
                                   ![r].rating = rating]
       IN  IF roleOf(userId) # "MOTHER"
             THEN reviewReq' = [req EXCEPT ![r].pc = "done", ![r].status = 403]
                  /\ UNCHANGED classReviews
           ELSE IF rating = 0 \/ rating < 1 \/ rating > 5
             THEN reviewReq' = [req EXCEPT ![r].pc = "done", ![r].status = 400]
                  /\ UNCHANGED classReviews
           ELSE /\ classReviews' =
                      (classReviews \ classId_userId(classReviews, id, userId)) \cup
                      {[classId |-> id, userId |-> userId, rating |-> rating]}
                /\ IF classId_userId(enrollments, id, userId) = {}
                     THEN reviewReq' = [req EXCEPT ![r].pc = "done", ![r].status = 403]
                     ELSE reviewReq' = [req EXCEPT ![r].pc = "findMany"]

AddReviewRead(r, userId, id, rating) ==
    /\ reviewReq[r].pc = "idle"
    /\ UNCHANGED <<enrollments, classReviews, classes, reports, verified, authReq,
                   accountVars, pregnancyVars, eventVars, communityVars, notificationVars>>
    /\ LET req == [reviewReq EXCEPT ![r].userId = userId, ![r].id = id,
                                   ![r].rating = rating]
       IN  IF roleOf(userId) # "MOTHER"
             THEN reviewReq' = [req EXCEPT ![r].pc = "done", ![r].status = 403]
           ELSE IF rating = 0 \/ rating < 1 \/ rating > 5
             THEN reviewReq' = [req EXCEPT ![r].pc = "done", ![r].status = 400]
           ELSE IF classId_userId(enrollments, id, userId) = {}
             THEN reviewReq' = [req EXCEPT ![r].pc = "done", ![r].status = 403]
           ELSE reviewReq' = [req EXCEPT ![r].pc = "upsert"]

\* Lines 492-517: prisma.classReview.upsert on the key classId_userId.
AddReviewUpsert(r) ==
    /\ reviewReq[r].pc = "upsert"
    /\ classReviews' =
           (classReviews \ classId_userId(classReviews, reviewReq[r].id, reviewReq[r].userId))
           \cup {[classId |-> reviewReq[r].id, userId |-> reviewReq[r].userId,
                  rating |-> reviewReq[r].rating]}
    /\ reviewReq' = [reviewReq EXCEPT ![r].pc = "findMany"]
    /\ UNCHANGED <<enrollments, classes, reports, verified, authReq, accountVars,
                   pregnancyVars, eventVars, communityVars, notificationVars>>

\* Lines 519-522: prisma.classReview.findMany of the class.
AddReviewFindMany(r) ==
    /\ reviewReq[r].pc = "findMany"
    /\ reviewReq' = [reviewReq EXCEPT ![r].pc = "update",
                                      ![r].reviews = reviewsOfClass(reviewReq[r].id)]
    /\ UNCHANGED <<enrollments, classReviews, classes, reports, verified, authReq,
                   accountVars, pregnancyVars, eventVars, communityVars, notificationVars>>

\* Lines 524-538: the average of the rows read, prisma.class.update, 201.
AddReviewUpdate(r) ==
    /\ reviewReq[r].pc = "update"
    /\ UNCHANGED <<enrollments, classReviews, reports, verified, authReq, accountVars,
                   pregnancyVars, eventVars, communityVars, notificationVars>>
    /\ IF \A c \in classes : c.id # reviewReq[r].id
         THEN ReviewDone(r, 500) /\ UNCHANGED classes
         ELSE /\ classes' =
                     {IF c.id = reviewReq[r].id
                        THEN [c EXCEPT !.averageRating =
                                           avgRating(reviewReq[r].reviews),
                                       !.reviewCount = Cardinality(reviewReq[r].reviews)]
                        ELSE c : c \in classes}
              /\ ReviewDone(r, 201)

ReviewRespond(r) ==
    /\ reviewReq[r].pc = "done"
    /\ reviewReq' = [reviewReq EXCEPT ![r] = IdleReviewRequest]
    /\ UNCHANGED <<enrollments, classReviews, classes, reports, verified, authReq,
                   accountVars, pregnancyVars, eventVars, communityVars, notificationVars>>

(***************************************************************************)
(* The users controller (router.use(authenticate), then the handlers).     *)
(***************************************************************************)
NoUserBody ==
    [fullName |-> "", role |-> "", currentPassword |-> <<>>, newPassword |-> <<>>]

IdleUserRequest ==
    [pc |-> "idle", op |-> "", userId |-> 0, body |-> NoUserBody, status |-> 0]

UserRequestDone(r, status) ==
    userReq' = [userReq EXCEPT ![r].pc = "done", ![r].status = status]

\* An update that copies the role of the body into the account.
userUpdateData_with_role(user, updates) ==
    IF updates.role # "" THEN [user EXCEPT !.role = updates.role] ELSE user

\* Lines 86-131: the data of prisma.user.update names the nested profile only,
\* so the row of the account stays as it is.
userUpdateData(user, updates) == user

\* Lines 88-129: the fields of the profile of the caller's role that the body
\* gives.
profileUpdateData(profile, updates) ==
    IF updates.fullName # "" THEN [profile EXCEPT !.fullName = updates.fullName]
    ELSE profile

UpdateProfileBodies ==
    {[NoUserBody EXCEPT !.fullName = n, !.role = rl] :
        n \in {"", "Ana"}, rl \in {"", "ADMIN"}}

\* PUT /users/profile, lines 80-144: one store call, prisma.user.update with
\* a nested update of the profile of the caller's role; it throws when that
\* profile does not exist.
UpdateProfile(r, userId, updates) ==
    /\ userReq[r].pc = "idle"
    /\ UNCHANGED <<regReq, loginReq, notifications, pregnancyVars, eventVars, adminVars,
                   communityVars, classVars>>
    /\ LET req == [userReq EXCEPT ![r].op = "updateProfile", ![r].userId = userId,
                                 ![r].body = updates, ![r].pc = "done"]
           kind == ProfileKind(roleOf(userId))
       IN  IF \A p \in profiles : ~(p.userId = userId /\ p.kind = kind)
             THEN /\ userReq' = [req EXCEPT ![r].status = 500]
                  /\ UNCHANGED <<users, profiles>>
             ELSE /\ users' = {IF u.id = userId THEN userUpdateData(u, updates) ELSE u :
                               u \in users}
                  /\ profiles' = {IF p.userId = userId /\ p.kind = kind
                                    THEN profileUpdateData(p, updates) ELSE p :
                                  p \in profiles}
                  /\ userReq' = [req EXCEPT ![r].status = 200]

ChangePasswordBodies ==
    {[NoUserBody EXCEPT !.currentPassword = c, !.newPassword = n] :
        c \in {<<>>, PwSecret, PwHunter}, n \in {PwSecret, PwShort}}

\* PUT /users/password, lines 167-199: the checks of the body, the read of
\* the account (first store call) and the comparison of the password.
ChangePasswordRead(r, userId, body) ==
    /\ userReq[r].pc = "idle"
    /\ UNCHANGED <<users, profiles, regReq, loginReq, notifications, pregnancyVars,
                   eventVars, adminVars, communityVars, classVars>>
    /\ LET req == [userReq EXCEPT ![r].op = "changePassword", ![r].userId = userId,
                                 ![r].body = body]
       IN  IF body.currentPassword = <<>> \/ body.newPassword = <<>>
             THEN userReq' = [req EXCEPT ![r].pc = "done", ![r].status = 400]
           ELSE IF Len(body.newPassword) < 6
             THEN userReq' = [req EXCEPT ![r].pc = "done", ![r].status = 400]
           ELSE IF \E u \in findUserById(userId) :
                      ~bcryptCompare(body.currentPassword, u.passwordHash)
             THEN userReq' = [req EXCEPT ![r].pc = "done", ![r].status = 401]
           ELSE userReq' = [req EXCEPT ![r].pc = "update"]

\* Lines 201-213: the new hash is written (second store call).
ChangePasswordUpdate(r) ==
    /\ userReq[r].pc = "update"
    /\ users' = {IF u.id = userReq[r].userId
                   THEN [u EXCEPT !.passwordHash = bcryptHash(userReq[r].body.newPassword)]
                   ELSE u : u \in users}
    /\ UserRequestDone(r, 200)
    /\ UNCHANGED <<profiles, regReq, loginReq, notifications, pregnancyVars, eventVars,
                   adminVars, communityVars, classVars>>

\* POST /users/onboarding, lines 227-252: one store call,
\* prisma.motherProfile.update({ where: { userId } }).
CompleteOnboarding(r, userId) ==
    /\ userReq[r].pc = "idle"
    /\ UNCHANGED <<users, regReq, loginReq, notifications, pregnancyVars, eventVars,
                   adminVars, communityVars, classVars>>
    /\ LET req == [userReq EXCEPT ![r].op = "completeOnboarding", ![r].userId = userId,
                                 ![r].pc = "done"]
       IN  IF roleOf(userId) # "MOTHER"
             THEN userReq' = [req EXCEPT ![r].status = 403] /\ UNCHANGED profiles
           ELSE IF \A p \in profiles : ~(p.userId = userId /\ p.kind = "mother")
             THEN userReq' = [req EXCEPT ![r].status = 500] /\ UNCHANGED profiles
           ELSE /\ profiles' = {IF p.userId = userId /\ p.kind = "mother"
                                  THEN [p EXCEPT !.onboardingDone = TRUE] ELSE p :
                                p \in profiles}
                /\ userReq' = [req EXCEPT ![r].status = 200]

UserRespond(r) ==
    /\ userReq[r].pc = "done"
    /\ userReq' = [userReq EXCEPT ![r] = IdleUserRequest]
    /\ UNCHANGED <<users, profiles, regReq, loginReq, notifications, pregnancyVars,
                   eventVars, adminVars, communityVars, classVars>>

(***************************************************************************)
(* Specifications of the accounts domain.  The store starts as             *)
(* prisma/seed.js leaves the administrator.                                *)
(***************************************************************************)
SeedAdmin ==
    [id |-> 1, email |-> EmailAdmin, passwordHash |-> bcryptHash(PwAdmin), role |-> "ADMIN"]

InitAccounts ==
    /\ users = {SeedAdmin}
    /\ profiles = {Profile("admin", 1, "Maria")}
    /\ regReq = [r \in RegIds |-> IdleRegister]
    /\ loginReq = [l \in LoginIds |-> IdleLogin]
    /\ now = 0
    /\ pregnancies = {}
    /\ pregReq = [r \in PregReqIds |-> IdlePregnancy]
    /\ symptomLogs = {}
    /\ events = {}
    /\ registrations = {}
    /\ evReq = [r \in EvReqIds |-> IdleEventRequest]
    /\ reports = {}
    /\ classes = {}
    /\ verified = {}
    /\ authReq = [r \in AuthReqIds |-> IdleAuthRequest]
    /\ CommunityEmpty
    /\ notifications = {}
    /\ userReq = [r \in UserReqIds |-> IdleUserRequest]
    /\ ClassesEmpty

\* Any interleaving of register requests.
NextRegister ==
    \/ \E r \in RegIds, body \in RegisterBodies : RegisterCheck(r, body)
    \/ \E r \in RegIds : RegisterCreate(r)
    \/ \E r \in RegIds : RegisterRespond(r)

SpecRegister == InitAccounts /\ [][NextRegister]_vars

\* Login requests, before and after accounts are registered.
LoginRegisterBodies == {b \in RegisterBodies : b.email = EmailA /\ b.fullName = "Maria"}

NextLogin ==
    \/ \E l \in LoginIds, body \in LoginBodies : Login(l, body)
    \/ \E l \in LoginIds : LoginRespond(l)
    \/ \E body \in LoginRegisterBodies : RegisterCheck(1, body)
    \/ RegisterCreate(1)

SpecLogin == InitAccounts /\ [][NextLogin]_vars

\* Accounts over their life: registration, the users controller called by
\* any existing account, and the administrator verifying collaborators.
AdminHeader == CHOOSE h \in HeaderCases : h.value = {Bearer_ \o <<"jwt.admin">>}

NextProfiles ==
    \/ \E body \in RegisterBodies : RegisterCheck(1, body)
    \/ RegisterCreate(1)
    \/ RegisterRespond(1)
    \/ \E r \in UserReqIds, u \in users, b \in UpdateProfileBodies :
          UpdateProfile(r, u.id, b)
    \/ \E r \in UserReqIds, u \in users, b \in ChangePasswordBodies :
          ChangePasswordRead(r, u.id, b)
    \/ \E r \in UserReqIds : ChangePasswordUpdate(r)
    \/ \E r \in UserReqIds, u \in users : CompleteOnboarding(r, u.id)
    \/ \E r \in UserReqIds : UserRespond(r)
    \/ \E i \in {2, 3} :
          Authenticate(1, [route |-> "verifyCollaborator", id |-> i, status |-> ""],
                       AdminHeader)
    \/ VerifyCollaborator(1)
    \/ AuthRespond(1)

SpecProfiles == InitAccounts /\ [][NextProfiles]_vars

\* The pregnancy domain: the administrator and two registered mothers.
SeedMothers ==
    {[id |-> 2, email |-> EmailA, passwordHash |-> bcryptHash(PwSecret), role |-> "MOTHER"],
     [id |-> 3, email |-> EmailB, passwordHash |-> bcryptHash(PwSecret), role |-> "MOTHER"]}

InitPregnancy ==
    /\ users = {SeedAdmin} \cup SeedMothers
    /\ profiles = {Profile("admin", 1, "Maria")} \cup
                  {Profile("mother", u.id, "Maria") : u \in SeedMothers}
    /\ regReq = [r \in RegIds |-> IdleRegister]
    /\ loginReq = [l \in LoginIds |-> IdleLogin]
    /\ now = 0
    /\ pregnancies = {}
    /\ pregReq = [r \in PregReqIds |-> IdlePregnancy]
    /\ symptomLogs = {}
    /\ events = {}
    /\ registrations = {}
    /\ evReq = [r \in EvReqIds |-> IdleEventRequest]
    /\ reports = {}
    /\ classes = {}
    /\ verified = {}
    /\ authReq = [r \in AuthReqIds |-> IdleAuthRequest]
    /\ CommunityEmpty
    /\ notifications = {}
    /\ userReq = [r \in UserReqIds |-> IdleUserRequest]
    /\ ClassesEmpty

\* Any interleaving of createPregnancy and updatePregnancy requests.
NextPregnancy ==
    \/ \E r \in PregReqIds, u \in users, body \in {b \in CreatePregnancyBodies : b.dueDate.t <= 5} :
          CreatePregnancyRead(r, u.id, body)
    \/ \E r \in PregReqIds : CreatePregnancyInsert(r)
    \/ \E r \in PregReqIds, u \in users, id \in PregnancyIds,
          body \in {b \in UpdatePregnancyBodies : b.dueDate = NoDate} :
          UpdatePregnancyRead(r, u.id, id, body)
    \/ \E r \in PregReqIds : UpdatePregnancyWrite(r)
    \/ \E r \in PregReqIds : PregnancyRespond(r)

SpecPregnancy == InitPregnancy /\ [][NextPregnancy]_vars

\* One mother's pregnancy over time: requests one at a time while days pass.
NextTracking ==
    \/ \E body \in CreatePregnancyBodies : CreatePregnancyRead(1, 2, body)
    \/ CreatePregnancyInsert(1)
    \/ \E id \in PregnancyIds,
          body \in {b \in UpdatePregnancyBodies : b.status \notin {"ACTIVE", "PAUSED"}} :
          UpdatePregnancyRead(1, 2, id, body)
    \/ UpdatePregnancyWrite(1)
    \/ GetCurrentPregnancyRead(1, 2)
    \/ GetCurrentPregnancyRecompute(1)
    \/ PregnancyRespond(1)
    \/ Tick

SpecTracking == InitPregnancy /\ [][NextTracking]_vars

\* One mother's pregnancy and symptom logs over time, her requests one at a
\* time.
NextSymptomsSeq ==
    \/ \E body \in CreatePregnancyBodies : CreatePregnancyRead(1, 2, body)
    \/ CreatePregnancyInsert(1)
    \/ GetCurrentPregnancyRead(1, 2)
    \/ GetCurrentPregnancyRecompute(1)
    \/ LogSymptomsRead(1, 2)
    \/ LogSymptomsCreate(1)
    \/ GetSymptomLogsRead(1, 2)
    \/ GetSymptomLogsFindMany(1)
    \/ PregnancyRespond(1)
    \/ Tick

SpecSymptomsSeq == InitPregnancy /\ [][NextSymptomsSeq]_vars

\* One mother logging symptoms while another request of hers reads or
\* updates the pregnancy.
NextSymptoms ==
    \/ \E body \in CreatePregnancyBodies : CreatePregnancyRead(1, 2, body)
    \/ CreatePregnancyInsert(1)
    \/ LogSymptomsRead(1, 2)
    \/ LogSymptomsCreate(1)
    \/ GetCurrentPregnancyRead(2, 2)
    \/ GetCurrentPregnancyRecompute(2)
    \/ \E id \in PregnancyIds, body \in {b \in UpdatePregnancyBodies : b.status = ""} :
          UpdatePregnancyRead(2, 2, id, body)
    \/ UpdatePregnancyWrite(2)
    \/ \E r \in {1, 2} : PregnancyRespond(r)
    \/ Tick

SpecSymptoms == InitPregnancy /\ [][NextSymptoms]_vars

\* The events domain: the administrator, MaxMothers mothers and a collaborator.
EventMothers == 2..(MaxMothers + 1)
EventCollaborator == MaxMothers + 2

SeedEmail(i) == <<"m", ToString(i), "@", "x", ".", "c">>

InitEvents ==
    /\ users = {SeedAdmin} \cup
               {[id |-> i, email |-> SeedEmail(i), passwordHash |-> bcryptHash(PwSecret),
                 role |-> "MOTHER"] : i \in EventMothers} \cup
               {[id |-> EventCollaborator, email |-> SeedEmail(EventCollaborator),
                 passwordHash |-> bcryptHash(PwHunter), role |-> "COLLABORATOR"]}
    /\ profiles = {Profile("admin", 1, "Maria")} \cup
                  {Profile("mother", i, "Maria") : i \in EventMothers} \cup
                  {Profile("collaborator", EventCollaborator, "Maria")}
    /\ regReq = [r \in RegIds |-> IdleRegister]
    /\ loginReq = [l \in LoginIds |-> IdleLogin]
    /\ now = 0
    /\ pregnancies = {}
    /\ pregReq = [r \in PregReqIds |-> IdlePregnancy]
    /\ symptomLogs = {}
    /\ events = {}
    /\ registrations = {}
    /\ evReq = [r \in EvReqIds |-> IdleEventRequest]
    /\ reports = {}
    /\ classes = {}
    /\ verified = {}
    /\ authReq = [r \in AuthReqIds |-> IdleAuthRequest]
    /\ CommunityEmpty
    /\ notifications = {}
    /\ userReq = [r \in UserReqIds |-> IdleUserRequest]
    /\ ClassesEmpty

\* One request at a time, with the detail of the event.
NextEventDetail ==
    \/ \E u \in users, body \in CreateEventBodies : CreateEvent(u.id, body)
    \/ \E id \in EventIds : PublishEvent(id)
    \/ \E u \in users, id \in EventIds : RegisterForEventRead(1, u.id, id)
    \/ RegisterForEventExisting(1)
    \/ RegisterForEventInsert(1)
    \/ \E u \in users, id \in EventIds : CancelRegistrationRead(1, u.id, id)
    \/ CancelRegistrationUpdate(1)
    \/ \E id \in EventIds : GetEventById(1, id)
    \/ EventRespond(1)

SpecEventDetail == InitEvents /\ [][NextEventDetail]_vars

\* Any interleaving of registration requests of two mothers.
NextEvents ==
    \/ \E body \in {b \in CreateEventBodies : b.capacity \in {{}, {1}}} :
          CreateEvent(EventCollaborator, body)
    \/ \E id \in EventIds : PublishEvent(id)
    \/ \E r \in EvReqIds, u \in {2, 3}, id \in EventIds : RegisterForEventRead(r, u, id)
    \/ \E r \in EvReqIds : RegisterForEventExisting(r)
    \/ \E r \in EvReqIds : RegisterForEventInsert(r)
    \/ \E r \in EvReqIds, u \in {2, 3}, id \in EventIds : CancelRegistrationRead(r, u, id)
    \/ \E r \in EvReqIds : CancelRegistrationUpdate(r)
    \/ \E r \in EvReqIds : EventRespond(r)

SpecEvents == InitEvents /\ [][NextEvents]_vars

\* Registration requests executed one at a time.
NextEventsSeq ==
    \/ \E u \in users, body \in CreateEventBodies : CreateEvent(u.id, body)
    \/ \E id \in EventIds : PublishEvent(id)
    \/ \E u \in users, id \in EventIds : RegisterForEventRead(1, u.id, id)
    \/ RegisterForEventExisting(1)
    \/ RegisterForEventInsert(1)
    \/ \E u \in users, id \in EventIds : CancelRegistrationRead(1, u.id, id)
    \/ CancelRegistrationUpdate(1)
    \/ EventRespond(1)

SpecEventsSeq == InitEvents /\ [][NextEventsSeq]_vars

\* The guarded routes: an administrator, a mother and a collaborator, with a
\* pending report, an unpublished class and an unpublished event.
InitAuth ==
    /\ users = {SeedAdmin,
                [id |-> 2, email |-> EmailA, passwordHash |-> bcryptHash(PwSecret),
                 role |-> "MOTHER"],
                [id |-> 3, email |-> EmailB, passwordHash |-> bcryptHash(PwHunter),
                 role |-> "COLLABORATOR"]}
    /\ profiles = {Profile("admin", 1, "Maria"), Profile("mother", 2, "Maria"),
                   Profile("collaborator", 3, "Maria")}
    /\ regReq = [r \in RegIds |-> IdleRegister]
    /\ loginReq = [l \in LoginIds |-> IdleLogin]
    /\ now = 0
    /\ pregnancies = {}
    /\ pregReq = [r \in PregReqIds |-> IdlePregnancy]
    /\ symptomLogs = {}
    /\ events = {[id |-> 1, capacity |-> {}, waitlistEnabled |-> FALSE,
                  organizerId |-> 3, isPublished |-> FALSE]}
    /\ registrations = {}
    /\ evReq = [r \in EvReqIds |-> IdleEventRequest]
    /\ reports = {[id |-> 1, status |-> "PENDING"]}
    /\ classes = {Class(1, FALSE)}
    /\ verified = {}
    /\ authReq = [r \in AuthReqIds |-> IdleAuthRequest]
    /\ CommunityEmpty
    /\ notifications = {}
    /\ userReq = [r \in UserReqIds |-> IdleUserRequest]
    /\ ClassesEmpty

NextAuth ==
    \/ \E r \in AuthReqIds, q \in RouteRequests, h \in HeaderCases : Authenticate(r, q, h)
    \/ \E r \in AuthReqIds : AdminRefuse(r)
    \/ \E r \in AuthReqIds : GetStats(r)
    \/ \E r \in AuthReqIds : GetReports(r)
    \/ \E r \in AuthReqIds : UpdateReportStatus(r)
    \/ \E r \in AuthReqIds : VerifyCollaborator(r)
    \/ \E r \in AuthReqIds : PublishClass(r)
    \/ \E r \in AuthReqIds : AdminPublishEvent(r)
    \/ \E r \in AuthReqIds : GetCurrentUser(r)
    \/ \E r \in AuthReqIds : AuthRespond(r)

SpecAuth == InitAuth /\ [][NextAuth]_vars

\* The community: the administrator, two mothers and a collaborator.
InitCommunity ==
    /\ users = {SeedAdmin,
                [id |-> 2, email |-> EmailA, passwordHash |-> bcryptHash(PwSecret),
                 role |-> "MOTHER"],
                [id |-> 3, email |-> EmailB, passwordHash |-> bcryptHash(PwHunter),
                 role |-> "MOTHER"],
                [id |-> 4, email |-> SeedEmail(4), passwordHash |-> bcryptHash(PwHunter),
                 role |-> "COLLABORATOR"]}
    /\ profiles = {Profile("admin", 1, "Maria"), Profile("mother", 2, "Maria"),
                   Profile("mother", 3, "Maria"),
                   Profile("collaborator", 4, "Maria")}
    /\ regReq = [r \in RegIds |-> IdleRegister]
    /\ loginReq = [l \in LoginIds |-> IdleLogin]
    /\ now = 0
    /\ pregnancies = {}
    /\ pregReq = [r \in PregReqIds |-> IdlePregnancy]
    /\ symptomLogs = {}
    /\ events = {}
    /\ registrations = {}
    /\ evReq = [r \in EvReqIds |-> IdleEventRequest]
    /\ reports = {}
    /\ classes = {}
    /\ verified = {}
    /\ authReq = [r \in AuthReqIds |-> IdleAuthRequest]
    /\ CommunityEmpty
    /\ notifications = {}
    /\ userReq = [r \in UserReqIds |-> IdleUserRequest]
    /\ ClassesEmpty

\* Reactions: each mother sends her calls one after the other (mother u on
\* request slot u - 1), the mothers concurrently.
NextReactions ==
    \/ \E u \in CommunityMothers : CreatePost(u, "oi")
    \/ \E u \in CommunityUsers, id \in AddressedPostIds,
          type \in {"HEART", "SUPPORT", "LIKE"} :
          /\ u - 1 \in CommReqIds
          /\ ToggleReactionRead(u - 1, u, id, type)
    \/ \E r \in CommReqIds : ToggleReactionWrite(r)
    \/ \E r \in CommReqIds : CommunityRespond(r)

SpecReactions == InitCommunity /\ [][NextReactions]_vars

\* Posts and comments, any interleaving of the requests of all accounts.
NextPosts ==
    \/ \E u \in CommunityMothers, content \in {"", "oi"} : CreatePost(u, content)
    \/ \E r \in CommReqIds, u \in CommunityUsers, id \in AddressedPostIds :
          DeletePostRead(r, u, id)
    \/ \E r \in CommReqIds : DeletePostUpdate(r)
    \/ \E r \in CommReqIds, u \in CommunityUsers, id \in AddressedPostIds,
          content \in {"", "oi"} : AddComment(r, u, id, content)
    \/ \E r \in CommReqIds : CommunityRespond(r)

SpecPosts == InitCommunity /\ [][NextPosts]_vars

\* The feed: a group, posts in it or outside it, deletions and reads by all
\* accounts.
NextFeed ==
    \/ \E u \in CommunityMothers, isPublic \in BOOLEAN : CreateGroup(u, isPublic)
    \/ \E u \in CommunityUsers, id \in GroupIds : JoinGroupRead(1, u, id)
    \/ JoinGroupExisting(1)
    \/ JoinGroupInsert(1)
    \/ \E u \in CommunityUsers, id \in GroupIds : LeaveGroup(1, u, id)
    \/ \E u \in CommunityMothers, g \in {{}} \cup {{i} : i \in GroupIds} :
          CreatePostInGroup(u, "oi", g)
    \/ \E u \in CommunityUsers, id \in PostIds : DeletePostRead(1, u, id)
    \/ DeletePostUpdate(1)
    \/ \E u \in CommunityUsers, g \in {{}} \cup {{i} : i \in GroupIds} : GetPosts(1, u, g)
    \/ \E u \in CommunityUsers, id \in AddressedPostIds : GetPostById(1, u, id)
    \/ CommunityRespond(1)

SpecFeed == InitCommunity /\ [][NextFeed]_vars

\* Notifications are written by no handler: the table is filled from outside.
\* A mother has two notifications.
InitNotifications ==
    /\ users = {SeedAdmin,
                [id |-> 2, email |-> EmailA, passwordHash |-> bcryptHash(PwSecret),
                 role |-> "MOTHER"],
                [id |-> 3, email |-> EmailB, passwordHash |-> bcryptHash(PwHunter),
                 role |-> "COLLABORATOR"]}
    /\ profiles = {Profile("admin", 1, "Maria"), Profile("mother", 2, "Maria"),
                   Profile("collaborator", 3, "Maria")}
    /\ regReq = [r \in RegIds |-> IdleRegister]
    /\ loginReq = [l \in LoginIds |-> IdleLogin]
    /\ now = 0
    /\ pregnancies = {}
    /\ pregReq = [r \in PregReqIds |-> IdlePregnancy]
    /\ symptomLogs = {}
    /\ events = {}
    /\ registrations = {}
    /\ evReq = [r \in EvReqIds |-> IdleEventRequest]
    /\ reports = {}
    /\ classes = {}
    /\ verified = {}
    /\ authReq = [r \in AuthReqIds |-> IdleAuthRequest]
    /\ CommunityEmpty
    /\ notifications \in {{[id |-> 1, userId |-> 2, isRead |-> b],
                           [id |-> 2, userId |-> 2, isRead |-> FALSE]} : b \in BOOLEAN}
    /\ userReq = [r \in UserReqIds |-> IdleUserRequest]
    /\ ClassesEmpty

NextNotifications ==
    \/ \E r \in AuthReqIds, i \in {1, 2, 3}, h \in HeaderCases :
          Authenticate(r, [route |-> "markAsRead", id |-> i, status |-> ""], h)
    \/ \E r \in AuthReqIds, h \in HeaderCases :
          Authenticate(r, [route |-> "markAllAsRead", id |-> 0, status |-> ""], h)
    \/ \E r \in AuthReqIds : MarkAsRead(r)
    \/ \E r \in AuthReqIds : MarkAllAsRead(r)
    \/ \E r \in AuthReqIds : AuthRespond(r)

SpecNotifications == InitNotifications /\ [][NextNotifications]_vars

\* Reviews of one class: the administrator and two enrolled mothers; a mother
\* sends her requests one at a time, the mothers concurrently.
ReviewMothers == {2, 3}
ReviewRatings == {0, 2, 5}
ReviewedClassIds == {1, 2}

InitReviews ==
    /\ users = {SeedAdmin} \cup SeedMothers
    /\ profiles = {Profile("admin", 1, "Maria")} \cup
                  {Profile("mother", u.id, "Maria") : u \in SeedMothers}
    /\ regReq = [r \in RegIds |-> IdleRegister]
    /\ loginReq = [l \in LoginIds |-> IdleLogin]
    /\ now = 0
    /\ pregnancies = {}
    /\ pregReq = [r \in PregReqIds |-> IdlePregnancy]
    /\ symptomLogs = {}
    /\ events = {}
    /\ registrations = {}
    /\ evReq = [r \in EvReqIds |-> IdleEventRequest]
    /\ reports = {}
    /\ classes = {Class(1, TRUE)}
    /\ verified = {}
    /\ authReq = [r \in AuthReqIds |-> IdleAuthRequest]
    /\ CommunityEmpty
    /\ notifications = {}
    /\ userReq = [r \in UserReqIds |-> IdleUserRequest]
    /\ enrollments = {[classId |-> 1, userId |-> u] : u \in ReviewMothers}
    /\ classReviews = {}
    /\ reviewReq = [r \in ReviewReqIds |-> IdleReviewRequest]

NextReviews ==
    \/ \E u \in ReviewMothers \cup {SeedAdmin.id}, id \in ReviewedClassIds,
          rating \in ReviewRatings :
          /\ u - 1 \in ReviewReqIds \/ u = SeedAdmin.id
          /\ AddReviewRead(IF u = SeedAdmin.id THEN 1 ELSE u - 1, u, id, rating)
    \/ \E r \in ReviewReqIds : AddReviewUpsert(r)
    \/ \E r \in ReviewReqIds : AddReviewFindMany(r)
    \/ \E r \in ReviewReqIds : AddReviewUpdate(r)
    \/ \E r \in ReviewReqIds : ReviewRespond(r)

SpecReviews == InitReviews /\ [][NextReviews]_vars

\* The guarded routes and the public detail route of the classes.
NextClassDetail ==
    \/ \E r \in AuthReqIds, q \in RouteRequests, h \in HeaderCases : Authenticate(r, q, h)
    \/ \E r \in AuthReqIds : AdminRefuse(r)
    \/ \E r \in AuthReqIds : GetStats(r)
    \/ \E r \in AuthReqIds : GetReports(r)
    \/ \E r \in AuthReqIds : UpdateReportStatus(r)
    \/ \E r \in AuthReqIds : VerifyCollaborator(r)
    \/ \E r \in AuthReqIds : PublishClass(r)
    \/ \E r \in AuthReqIds : AdminPublishEvent(r)
    \/ \E r \in AuthReqIds : GetCurrentUser(r)
    \/ \E r \in AuthReqIds, id \in {1, 2}, h \in HeaderCases : GetClassById(r, id, h)
    \/ \E r \in AuthReqIds : AuthRespond(r)

SpecClassDetail == InitAuth /\ [][NextClassDetail]_vars

(***************************************************************************)
(* Events from their creation to their registrations: the collaborator     *)
(* creates, whoever holds a token asks for the publication, a mother       *)
(* registers and cancels on two request slots.                             *)
(***************************************************************************)
InitPublishing ==
    /\ users = {SeedAdmin,
                [id |-> 2, email |-> EmailA, passwordHash |-> bcryptHash(PwSecret),
                 role |-> "MOTHER"],
                [id |-> 3, email |-> EmailB, passwordHash |-> bcryptHash(PwHunter),
                 role |-> "COLLABORATOR"]}
    /\ profiles = {Profile("admin", 1, "Maria"), Profile("mother", 2, "Maria"),
                   Profile("collaborator", 3, "Maria")}
    /\ regReq = [r \in RegIds |-> IdleRegister]
    /\ loginReq = [l \in LoginIds |-> IdleLogin]
    /\ now = 0
    /\ pregnancies = {}
    /\ pregReq = [r \in PregReqIds |-> IdlePregnancy]
    /\ symptomLogs = {}
    /\ events = {}
    /\ registrations = {}
    /\ evReq = [r \in EvReqIds |-> IdleEventRequest]
    /\ reports = {[id |-> 1, status |-> "PENDING"]}
    /\ classes = {Class(1, FALSE)}
    /\ verified = {}
    /\ authReq = [r \in AuthReqIds |-> IdleAuthRequest]
    /\ CommunityEmpty
    /\ notifications = {}
    /\ userReq = [r \in UserReqIds |-> IdleUserRequest]
    /\ ClassesEmpty

PublishRequests == {[route |-> "publishEvent", id |-> i, status |-> ""] : i \in {1, 2}}

NextPublishing ==
    \/ \E body \in {b \in CreateEventBodies : b.capacity = {}} : CreateEvent(3, body)
    \/ \E q \in PublishRequests, h \in HeaderCases : Authenticate(1, q, h)
    \/ AdminRefuse(1)
    \/ AdminPublishEvent(1)
    \/ AuthRespond(1)
    \/ \E r \in {1, 2}, id \in EventIds : RegisterForEventRead(r, 2, id)
    \/ \E r \in {1, 2} : RegisterForEventExisting(r)
    \/ \E r \in {1, 2} : RegisterForEventInsert(r)
    \/ \E r \in {1, 2}, id \in EventIds : CancelRegistrationRead(r, 2, id)
    \/ \E r \in {1, 2} : CancelRegistrationUpdate(r)
    \/ \E r \in {1, 2} : EventRespond(r)

SpecPublishing == InitPublishing /\ [][NextPublishing]_vars

(***************************************************************************)
(* One client at a time, over the four domains: each request runs to its   *)
(* answer before the next one starts.                                      *)
(***************************************************************************)
FrameCallers == {2, 3, 4}

FrameEventBodies == {[ValidEventBody EXCEPT !.capacity = {1}, !.waitlistEnabled = FALSE]}

InitFrame ==
    /\ users = {SeedAdmin,
                [id |-> 2, email |-> EmailA, passwordHash |-> bcryptHash(PwSecret),
                 role |-> "MOTHER"],
                [id |-> 3, email |-> EmailB, passwordHash |-> bcryptHash(PwHunter),
                 role |-> "MOTHER"],
                [id |-> 4, email |-> SeedEmail(4), passwordHash |-> bcryptHash(PwHunter),
                 role |-> "COLLABORATOR"]}
    /\ profiles = {Profile("admin", 1, "Maria"), Profile("mother", 2, "Maria"),
                   Profile("mother", 3, "Maria"),
                   Profile("collaborator", 4, "Maria")}
    /\ regReq = [r \in RegIds |-> IdleRegister]
    /\ loginReq = [l \in LoginIds |-> IdleLogin]
    /\ now = 0
    /\ pregnancies = {}
    /\ pregReq = [r \in PregReqIds |-> IdlePregnancy]
    /\ symptomLogs = {}
    /\ events = {}
    /\ registrations = {}
    /\ evReq = [r \in EvReqIds |-> IdleEventRequest]
    /\ reports = {}
    /\ classes = {Class(1, TRUE)}
    /\ verified = {}
    /\ authReq = [r \in AuthReqIds |-> IdleAuthRequest]
    /\ CommunityEmpty
    /\ notifications = {}
    /\ userReq = [r \in UserReqIds |-> IdleUserRequest]
    /\ enrollments = {[classId |-> 1, userId |-> 2]}
    /\ classReviews = {}
    /\ reviewReq = [r \in ReviewReqIds |-> IdleReviewRequest]

FrameIdle ==
    /\ pregReq[1].pc = "idle"
    /\ evReq[1].pc = "idle"
    /\ reviewReq[1].pc = "idle"
    /\ commReq[1].pc = "idle"

NextFrame ==
    \/ FrameIdle /\ \E body \in FrameEventBodies : CreateEvent(4, body)
    \/ FrameIdle /\ \E id \in EventIds : PublishEvent(id)
    \/ FrameIdle /\ \E u \in FrameCallers, id \in EventIds : RegisterForEventRead(1, u, id)
    \/ RegisterForEventExisting(1)
    \/ RegisterForEventInsert(1)
    \/ FrameIdle /\ \E u \in FrameCallers, id \in EventIds : CancelRegistrationRead(1, u, id)
    \/ CancelRegistrationUpdate(1)
    \/ EventRespond(1)
    \/ FrameIdle /\ \E u \in FrameCallers, body \in CreatePregnancyBodies :
          CreatePregnancyRead(1, u, body)
    \/ CreatePregnancyInsert(1)
    \/ PregnancyRespond(1)
    \/ FrameIdle /\ \E u \in FrameCallers, rating \in {0, 5} : AddReviewRead(1, u, 1, rating)
    \/ AddReviewUpsert(1)
    \/ AddReviewFindMany(1)
    \/ AddReviewUpdate(1)
    \/ ReviewRespond(1)
    \/ FrameIdle /\ \E u \in {2} : CreateGroup(u, TRUE)
    \/ FrameIdle /\ \E u \in FrameCallers, id \in GroupIds : JoinGroupRead(1, u, id)
    \/ JoinGroupExisting(1)
    \/ JoinGroupInsert(1)
    \/ FrameIdle /\ \E u \in FrameCallers, id \in GroupIds : LeaveGroup(1, u, id)
    \/ CommunityRespond(1)

SpecFrame == InitFrame /\ [][NextFrame]_vars

(***************************************************************************)
(* Properties of the accounts domain                                       *)
(***************************************************************************)

\* C2: in every reachable state of any interleaving of register requests, no
\* two rows of the users table hold the same email.
C2_UniqueEmail ==
    \A u, v \in users : u.email = v.email => u = v

\* C2 witness: two requests with the same email both passed the existence
\* check before either inserted; one created the account, the other's insert
\* was refused.
C2_Witness ==
    \E r1, r2 \in RegIds :
        /\ r1 # r2
        /\ regReq[r1].pc = "done" /\ regReq[r2].pc = "done"
        /\ regReq[r1].body.email = regReq[r2].body.email
        /\ regReq[r1].status = 201
        /\ regReq[r2].status = 500

\* A body that passes every validation of register (lines 31-62, 96-101).
ValidRegisterBody(body) ==
    /\ validateRequiredFields(body, {"email", "password", "role", "fullName"}).valid
    /\ isValidEmail(body.email)
    /\ isValidPassword(body.password)
    /\ body.role \in {"MOTHER", "COLLABORATOR"}
    /\ body.role = "COLLABORATOR" => body.profession # ""

\* C3: a finished register request with a valid body that created no account
\* although its email is held by an account (the sequential duplicate and the
\* loser of two concurrent requests alike) has answered 409 Conflict.
C3_DuplicateAnswers409 ==
    \A r \in RegIds :
        ( /\ regReq[r].pc = "done"
          /\ ValidRegisterBody(regReq[r].body)
          /\ regReq[r].created = {}
          /\ findUserByEmail(regReq[r].body.email) # {} )
        => regReq[r].status = 409

\* C10: two login requests with the same non-empty email and password, one
\* run when the email had no account and one when it had an account with a
\* different password, got identical responses: 401, the same message, no token.
C10_LoginDoesNotRevealAccount ==
    \A l1, l2 \in LoginIds :
        ( /\ loginReq[l1].pc = "done" /\ loginReq[l2].pc = "done"
          /\ loginReq[l1].body = loginReq[l2].body
          /\ Len(loginReq[l1].body.email) > 0
          /\ Len(loginReq[l1].body.password) > 0
          /\ ~loginReq[l1].userFound
          /\ loginReq[l2].userFound /\ ~loginReq[l2].passwordValid )
        => /\ loginReq[l1].status = 401 /\ loginReq[l2].status = 401
           /\ loginReq[l1].message = loginReq[l2].message
           /\ loginReq[l1].token = {} /\ loginReq[l2].token = {}

\* C10 witness: both runs of the pair have happened.
C10_Witness ==
    \E l1, l2 \in LoginIds :
        /\ loginReq[l1].pc = "done" /\ loginReq[l2].pc = "done"
        /\ loginReq[l1].body = loginReq[l2].body
        /\ Len(loginReq[l1].body.email) > 0
        /\ Len(loginReq[l1].body.password) > 0
        /\ ~loginReq[l1].userFound
        /\ loginReq[l2].userFound /\ ~loginReq[l2].passwordValid

(***************************************************************************)
(* Properties of the pregnancy domain                                      *)
(***************************************************************************)

MaxDueDate == 300
DueDateGrid == 0..MaxDueDate

\* The week calculation is within 1..40 at every probed due date and clock reading.
WeekGridInRange ==
    \A d \in DueDateGrid, t \in 0..MaxNow : currentWeekAt(d, t) \in 1..40

\* C4: calculateCurrentWeek returns an integer in 1..40 for every due date at
\* every current time, so every currentWeek stored by createPregnancy,
\* updatePregnancy and getCurrentPregnancy lies in 1..40.
C4_WeekInRange ==
    /\ WeekGridInRange
    /\ \A p \in pregnancies : p.currentWeek \in 1..40

\* C4 witness: all three writers have acted and both clamps were needed: a row
\* created with a due date more than 40 weeks away holds week 1, and a row
\* whose due date has passed was recomputed to week 40 by getCurrentPregnancy.
C4_Witness ==
    /\ \E p \in pregnancies : p.currentWeek = 1 /\ p.dueDate - now > 40 * millisecondsPerWeek
    /\ \E p \in pregnancies : p.currentWeek = 40 /\ p.dueDate < now
    /\ pregReq[1].pc = "done" /\ pregReq[1].op = "getCurrentPregnancy"
    /\ pregReq[1].status = 200

(***************************************************************************)
(* Properties of the events domain                                         *)
(***************************************************************************)
\* The finished registerForEvent requests of mothers who had no registration
\* for the published event; AtCapacity: the count such a request read was at
\* least the capacity of the event.
FinishedRegistrations ==
    {r \in EvReqIds : /\ evReq[r].pc = "done"
                      /\ evReq[r].op = "registerForEvent"
                      /\ evReq[r].status \notin {403, 404, 409}}

AtCapacity(r) ==
    \E e \in evReq[r].event : \E c \in e.capacity : evReq[r].count >= c

\* C5: a registerForEvent for a published event whose count of REGISTERED
\* registrations is at least its capacity answers 400 and creates no row when
\* the event has no waitlist, and creates a WAITLIST row and answers 201 when
\* it has one.
C5_AtCapacityRejectsOrWaitlists ==
    \A r \in FinishedRegistrations :
        AtCapacity(r) =>
            \E e \in evReq[r].event :
                IF e.waitlistEnabled
                  THEN /\ evReq[r].status = 201
                       /\ [eventId |-> e.id, userId |-> evReq[r].userId,
                           status |-> "WAITLIST"] \in registrations
                  ELSE /\ evReq[r].status = 400
                       /\ findRegistration(e.id, evReq[r].userId) = {}

\* C6: the insert of a registration writes the status decided on the count
\* read at the start of the request, whatever the count has become: two
\* requests of different mothers that both read the last free spot both end
\* REGISTERED, and the event holds more REGISTERED rows than its capacity.
C6_InsertKeepsEarlierDecision ==
    [][\A r \in EvReqIds :
          (/\ evReq[r].pc = "insert"
           /\ evReq'[r].pc = "done"
           /\ eventId_userId(evReq[r].id, evReq[r].userId))
          => /\ evReq'[r].status = 201
             /\ [eventId |-> evReq[r].id, userId |-> evReq[r].userId,
                 status |-> evReq[r].regStatus] \in registrations']_vars

C6_Witness ==
    \E e \in events : \E c \in e.capacity :
        /\ c > 0
        /\ registeredCount(e.id) > c
        /\ \E r1, r2 \in EvReqIds :
              /\ evReq[r1].userId # evReq[r2].userId
              /\ \A r \in {r1, r2} :
                    /\ evReq[r].pc = "done" /\ evReq[r].op = "registerForEvent"
                    /\ evReq[r].id = e.id /\ evReq[r].status = 201
                    /\ evReq[r].count = c - 1
                    /\ [eventId |-> e.id, userId |-> evReq[r].userId,
                        status |-> "REGISTERED"] \in registrations

\* C7: with the requests executed one at a time, an event with a positive
\* capacity never holds more REGISTERED registrations than that capacity.
C7_NeverOverbookedSequentially ==
    \A e \in events : \A c \in e.capacity :
        c > 0 => registeredCount(e.id) <= c

C7_Witness ==
    \E r \in FinishedRegistrations : \E e \in evReq[r].event : \E c \in e.capacity :
        /\ c > 0
        /\ registeredCount(e.id) = c
        /\ evReq[r].count = c
        /\ evReq[r].status \in {400, 201}
        /\ [eventId |-> e.id, userId |-> evReq[r].userId,
            status |-> "REGISTERED"] \notin registrations

(***************************************************************************)
(* Properties of the guards                                                *)
(***************************************************************************)
\* C8: a request behind authenticate goes on to its handler only with a
\* header that starts with "Bearer " and carries a verifiable token of an
\* existing account; every other request is answered 401 and no handler runs.
\* The identity attached is the account in the store: its row, its id and its
\* role, not the role the token carries.
C8_AuthenticateGate ==
    \A r \in AuthReqIds :
        authReq[r].pc # "idle" =>
            IF authReq[r].header.kind = "ok"
              THEN /\ authReq[r].status # 401
                   /\ authReq[r].user = findUserById(authReq[r].header.subject)
                   /\ authReq[r].user # {}
                   /\ authReq[r].userId = authReq[r].header.subject
                   /\ authReq[r].userRole = roleOf(authReq[r].header.subject)
              ELSE /\ authReq[r].pc = "done"
                   /\ authReq[r].status = 401
                   /\ ~authReq[r].handlerRan
                   /\ authReq[r].user = {}

\* A handler ran for a token that names a role its account does not have.
C8_Witness ==
    \E r \in AuthReqIds :
        /\ authReq[r].handlerRan
        /\ authReq[r].header.value = {Bearer_ \o <<"jwt.stale">>}
        /\ authReq[r].userRole = "MOTHER"
        /\ Jwt["jwt.stale"].role = "ADMIN"

Roles == {"MOTHER", "COLLABORATOR", "ADMIN"}

\* authorize on every set of roles and every request context.
AuthorizeGrid ==
    /\ \A roles \in SUBSET Roles : authorize(roles, {}) = 401
    /\ \A roles \in SUBSET Roles, role \in Roles :
          authorize(roles, {[id |-> 1, role |-> role]})
              = IF role \in roles THEN 0 ELSE 403

AdminGate ==
    \A r \in AuthReqIds :
        (authReq[r].pc = "done" /\ authReq[r].route \in AdminRoutes
            /\ authReq[r].status # 401) =>
            IF roleOf(authReq[r].userId) = "ADMIN"
              THEN authReq[r].handlerRan /\ authReq[r].status # 403
              ELSE ~authReq[r].handlerRan /\ authReq[r].status = 403

AdminStore == <<reports, classes, verified, {e \in events : e.isPublished}>>

AdminOnlyStep ==
    AdminStore' # AdminStore =>
        \E r \in AuthReqIds :
            /\ authReq[r].pc = "authenticated"
            /\ authReq[r].route \in AdminRoutes
            /\ roleOf(authReq[r].userId) = "ADMIN"
            /\ authReq'[r].handlerRan

\* C9: behind authorize(roles) the handler runs only for an account whose role
\* is in roles; another role is answered 403 and a request with no user
\* attached 401, the handler not running.  The admin operations run, and
\* change the store, only for an account with role ADMIN.
C9_AuthorizeGate ==
    [](AuthorizeGrid /\ AdminGate) /\ [][AdminOnlyStep]_vars

\* An authenticated mother asked to publish an existing event.
C9_Witness ==
    \E r \in AuthReqIds :
        /\ authReq[r].pc = "done"
        /\ authReq[r].route = "publishEvent"
        /\ authReq[r].id = 1
        /\ authReq[r].status = 403
        /\ roleOf(authReq[r].userId) = "MOTHER"
        /\ \A e \in events : ~e.isPublished

(***************************************************************************)
(* Properties of the community domain                                      *)
(***************************************************************************)
OneReactionPerMother ==
    \A x, y \in reactions : (x.postId = y.postId /\ x.userId = y.userId) => x = y

\* The write that ends the second of two consecutive toggleReaction calls of a
\* mother on a post: her reaction is there again exactly if it was there
\* before the first call, and the post has as many reactions as before the
\* first call unless another caller changed them meanwhile.
TogglePairStep ==
    \A r \in CommReqIds :
        (/\ commReq[r].pc = "toggle"
         /\ commReq'[r].pc = "done"
         /\ findPost(commReq[r].id) # {}
         /\ reactionLog[<<commReq[r].id, commReq[r].userId>>].calls > 0)
        => LET log == reactionLog[<<commReq[r].id, commReq[r].userId>>]
           IN  /\ (findReaction(commReq[r].id, commReq[r].userId)' # {}) = log.present
               /\ log.calm => reactionCount(commReq[r].id)' = log.count

AuthorOrAdmin(r) ==
    \/ roleOf(commReq[r].userId) = "ADMIN"
    \/ \E p \in findPost(commReq[r].id) : p.authorId = commReq[r].userId

DeletePostAnswers ==
    \A r \in CommReqIds :
        (commReq[r].op = "deletePost" /\ commReq[r].pc # "idle"
            /\ commReq[r].status # 404) =>
            IF AuthorOrAdmin(r)
              THEN \/ commReq[r].pc = "delete"
                   \/ /\ commReq[r].status = 200
                      /\ \A p \in findPost(commReq[r].id) : p.deleted
              ELSE commReq[r].pc = "done" /\ commReq[r].status = 403

DeletePostStep ==
    posts' # posts /\ {p.id : p \in posts'} = {p.id : p \in posts} =>
        \E r \in CommReqIds :
            /\ commReq[r].pc = "delete"
            /\ AuthorOrAdmin(r)
            /\ \A p \in posts : p.id # commReq[r].id => p \in posts'

\* C12: deletePost on an existing post answers 403 and leaves the post as it
\* is when the caller is neither its author nor an administrator; a post is
\* marked deleted only for its author or an administrator.
C12_DeletePostOwnerOrAdmin ==
    []DeletePostAnswers /\ [][DeletePostStep]_vars

\* A mother who is not the author was refused and the post is still there.
C12_Witness ==
    \E r \in CommReqIds : \E p \in findPost(commReq[r].id) :
        /\ commReq[r].pc = "done" /\ commReq[r].op = "deletePost"
        /\ commReq[r].status = 403
        /\ roleOf(commReq[r].userId) = "MOTHER"
        /\ p.authorId # commReq[r].userId
        /\ ~p.deleted

(***************************************************************************)
(* More properties of the events domain                                    *)
(***************************************************************************)
OneRegistrationPerMother ==
    \A x, y \in registrations : (x.eventId = y.eventId /\ x.userId = y.userId) => x = y

\* The look-up of the caller's registration finds a row.
AlreadyRegisteredStep ==
    \A r \in EvReqIds :
        (/\ evReq[r].pc = "existing"
         /\ evReq'[r] # evReq[r]
         /\ findRegistration(evReq[r].id, evReq[r].userId) # {})
        => /\ evReq'[r].pc = "done"
           /\ evReq'[r].status = 409
           /\ registrations' = registrations

\* C13: registerForEvent of a mother who has a registration for the event
\* answers 409 and creates no row; there is never more than one registration
\* per (event, mother).
C13_DoubleRegistration409 ==
    []OneRegistrationPerMother /\ [][AlreadyRegisteredStep]_vars

\* A registered mother asked again and was answered 409.
C13_Witness ==
    \E r \in EvReqIds :
        /\ evReq[r].pc = "done" /\ evReq[r].op = "registerForEvent"
        /\ evReq[r].status = 409
        /\ Cardinality(findRegistration(evReq[r].id, evReq[r].userId)) = 1

(***************************************************************************)
(* More properties of the week calculation                                 *)
(***************************************************************************)
\* At every probed due date the week does not go down from one clock reading
\* to a later one, and stays 40 once it is 40.
WeekGridMonotone ==
    \A d \in DueDateGrid : \A t1, t2 \in 0..MaxNow :
        t1 <= t2 =>
            /\ currentWeekAt(d, t1) <= currentWeekAt(d, t2)
            /\ currentWeekAt(d, t1) = 40 => currentWeekAt(d, t2) = 40

WeekMonotoneStep ==
    \A p \in pregnancies :
        /\ currentWeekAt(p.dueDate, now) <= currentWeekAt(p.dueDate, now')
        /\ currentWeekAt(p.dueDate, now) = 40 => currentWeekAt(p.dueDate, now') = 40

\* C14: for a fixed due date calculateCurrentWeek is non-decreasing in the
\* current time, and once it is 40 it stays 40.
C14_WeekMonotone ==
    []WeekGridMonotone /\ [][WeekMonotoneStep]_vars

\* The clock has advanced and the week of a stored pregnancy has gone up.
C14_Witness ==
    \E p \in pregnancies :
        /\ now > 0
        /\ currentWeekAt(p.dueDate, 0) < currentWeekAt(p.dueDate, now)
        /\ currentWeekAt(p.dueDate, now) < 40

\* The reference: 40 minus the weeks remaining rounded down, clamped.
referenceWeek(dueDate, t) ==
    Max(1, Min(40, 40 - ((dueDate - t) \div 7)))

\* The reference with one week less when the remaining time is not a whole
\* number of weeks.
referenceWeekRoundedUp(dueDate, t) ==
    Max(1, Min(40, 40 - ((dueDate - t) \div 7) - (IF (dueDate - t) % 7 = 0 THEN 0 ELSE 1)))

WeekGridEqualsReference ==
    \A d \in DueDateGrid, t \in 0..MaxNow : currentWeekAt(d, t) = referenceWeek(d, t)

WeekGridEqualsReferenceRoundedUp ==
    \A d \in DueDateGrid, t \in 0..MaxNow :
        currentWeekAt(d, t) = referenceWeekRoundedUp(d, t)

\* C15 as stated: calculateCurrentWeek equals clamp(40 - weeksRemaining, 1, 40)
\* with weeksRemaining = (dueDate - now) / 7 days rounded down, also when the
\* remaining time is not a whole number of weeks.
C15_WeekEqualsReference ==
    /\ WeekGridEqualsReference
    /\ \A p \in pregnancies : calculateCurrentWeek(p.dueDate) = referenceWeek(p.dueDate, now)

\* C15: calculateCurrentWeek equals clamp(40 - weeksRemaining, 1, 40) with
\* weeksRemaining = (dueDate - now) / 7 days rounded up: the reference when
\* the remaining time is a whole number of weeks, one week less than the
\* unclamped reference when it is not.
C15_WeekEqualsReferenceRoundedUp ==
    /\ WeekGridEqualsReferenceRoundedUp
    /\ \A p \in pregnancies :
          calculateCurrentWeek(p.dueDate) = referenceWeekRoundedUp(p.dueDate, now)

\* A pregnancy was created 5 days before its due date: week 39 was stored,
\* where the reference is 40.
C15_Witness ==
    \E p \in pregnancies :
        /\ (p.dueDate - now) % 7 # 0
        /\ p.currentWeek = calculateCurrentWeek(p.dueDate)
        /\ p.currentWeek = referenceWeek(p.dueDate, now) - 1

(***************************************************************************)
(* Properties of the answers to ids that do not exist                      *)
(***************************************************************************)
\* The admin operation of request r ran on an id its table does not hold.
RanOnMissingId(r) ==
    /\ authReq[r].pc = "done"
    /\ authReq[r].handlerRan
    /\ \/ authReq[r].route = "publishEvent" /\ \A e \in events : e.id # authReq[r].id
       \/ authReq[r].route = "publishClass" /\ \A c \in classes : c.id # authReq[r].id
       \/ /\ authReq[r].route = "verifyCollaborator"
          /\ \A p \in profiles : ~(p.kind = "collaborator" /\ p.userId = authReq[r].id)
       \/ /\ authReq[r].route = "updateReportStatus"
          /\ authReq[r].body \in ReportStatuses
          /\ \A p \in reports : p.id # authReq[r].id

\* C16: an operation that addresses an entity by an id that does not exist
\* answers 404 (and changes nothing); here updateReportStatus,
\* verifyCollaborator, publishClass and publishEvent.
C16_MissingIdAnswers404 ==
    \A r \in AuthReqIds : RanOnMissingId(r) => authReq[r].status = 404

(***************************************************************************)
(* Properties of ownership                                                 *)
(***************************************************************************)
\* C17: an update of an owned entity succeeds only for its owner; any other
\* caller is answered 403 and the entity is unchanged.  Here markAsRead: a
\* notification is marked read only for the user it belongs to.
C17_OnlyOwnerMarksAsRead ==
    \A r \in AuthReqIds : \A n \in notifications :
        (/\ authReq[r].pc = "done" /\ authReq[r].route = "markAsRead"
         /\ authReq[r].handlerRan
         /\ roleOf(authReq[r].userId) # "ADMIN"
         /\ n.id = authReq[r].id
         /\ n.userId # authReq[r].userId)
        => authReq[r].status = 403

(***************************************************************************)
(* Properties of roles and profiles                                        *)
(***************************************************************************)
profilesOf(userId) == {p \in profiles : p.userId = userId}

profileKindsOf(ps, userId) == {p.kind : p \in {x \in ps : x.userId = userId}}

RoleOfKind(kind) ==
    IF kind = "mother" THEN "MOTHER"
    ELSE IF kind = "collaborator" THEN "COLLABORATOR" ELSE "ADMIN"

OneMatchingProfile ==
    /\ \A u \in users :
          /\ Cardinality(profilesOf(u.id)) = 1
          /\ \A p \in profilesOf(u.id) : RoleOfKind(p.kind) = u.role
    /\ \A p \in profiles : \E u \in users : u.id = p.userId

RegisterNeverCreatesAdmin ==
    /\ \A u \in users : u.role = "ADMIN" => u = SeedAdmin
    /\ \A r \in RegIds : \A id \in regReq[r].created : roleOf(id) # "ADMIN"

RoleAndProfileKept ==
    \A u \in users :
        /\ \E v \in users' : v.id = u.id /\ v.role = u.role
        /\ \A v \in users' : v.id = u.id => v.role = u.role
        /\ profileKindsOf(profiles', u.id) = profileKindsOf(profiles, u.id)

\* C18: every account has exactly one profile and it is the profile of its
\* role; updateProfile, changePassword, completeOnboarding and the
\* administrator's operations never change a role nor add or remove a
\* profile; register never creates an ADMIN account.
C18_OneProfileMatchingRole ==
    /\ [](OneMatchingProfile /\ RegisterNeverCreatesAdmin)
    /\ [][RoleAndProfileKept]_vars

\* A collaborator, registered with another password, sent a role with a
\* profile update that was applied, after changing the password and being
\* verified, and is still a collaborator with the one collaborator profile.
C18_Witness ==
    \E r \in UserReqIds : \E u \in users :
        /\ userReq[r].pc = "done" /\ userReq[r].op = "updateProfile"
        /\ userReq[r].status = 200
        /\ userReq[r].userId = u.id
        /\ userReq[r].body.role = "ADMIN"
        /\ u.id # SeedAdmin.id
        /\ u.role = "COLLABORATOR"
        /\ u.passwordHash = bcryptHash(PwSecret)
        /\ \E p \in profilesOf(u.id) : p.kind = "collaborator" /\ p.fullName = "Ana"
        /\ u.id \in verified

(***************************************************************************)
(* Properties of validation                                                *)
(***************************************************************************)
\* C19: updatePregnancy with a status outside ACTIVE, COMPLETED, LOST answers
\* 400 (and leaves the pregnancy unchanged), once the caller passed the role,
\* existence and ownership checks.
C19_InvalidStatusAnswers400 ==
    \A r \in PregReqIds :
        (/\ pregReq[r].pc = "done" /\ pregReq[r].op = "updatePregnancy"
         /\ pregReq[r].body.status # ""
         /\ pregReq[r].body.status \notin PregnancyStatuses
         /\ pregReq[r].status \notin {403, 404})
        => pregReq[r].status = 400

(***************************************************************************)
(* Properties of class ratings                                             *)
(***************************************************************************)
NoReviewInFlight == \A r \in ReviewReqIds : reviewReq[r].pc \in {"idle", "done"}

sameNumber(a, b) == a.num * b.den = b.num * a.den

\* C20: whenever every addReview request has completed, the averageRating of
\* each reviewed class is the mean of the ratings of its reviews and its
\* reviewCount is their number, whatever the interleaving of the requests.
C20_RatingIsMeanOfReviews ==
    NoReviewInFlight =>
        \A c \in classes :
            reviewsOfClass(c.id) # {} =>
                /\ sameNumber(c.averageRating, avgRating(reviewsOfClass(c.id)))
                /\ c.reviewCount = Cardinality(reviewsOfClass(c.id))

(***************************************************************************)
(* Properties of symptom logs and the stored week                          *)
(***************************************************************************)
ReadsActivePregnancy == {"getCurrentPregnancy", "logSymptoms", "getSymptomLogs"}

\* The request of slot r answers a read of the ACTIVE pregnancy in this step.
AnswersPregnancyRead(r) ==
    /\ pregReq[r].pc # "done"
    /\ pregReq'[r].pc = "done"
    /\ pregReq'[r].op \in ReadsActivePregnancy
    /\ pregReq'[r].status \in {200, 201}

StoredWeekIsCurrentStep ==
    \A r \in PregReqIds :
        AnswersPregnancyRead(r) =>
            \A p \in pregnancies' :
                p.id = pregReq'[r].id => p.currentWeek = currentWeekAt(p.dueDate, now)

\* C21: when getCurrentPregnancy, logSymptoms or getSymptomLogs has read the
\* mother's ACTIVE pregnancy and answers, the stored currentWeek is
\* calculateCurrentWeek(dueDate) of that time.
C21_ReadPersistsCurrentWeek == [][StoredWeekIsCurrentStep]_vars

NewLogTakesStoredWeek ==
    \A l \in symptomLogs' \ symptomLogs :
        \A p \in pregnancies : p.id = l.pregnancyId => l.week = p.currentWeek

SymptomLogsKept == \A l \in symptomLogs : l \in symptomLogs'

\* C22: a symptom log is created with the currentWeek stored on the ACTIVE
\* pregnancy at the moment of creation, and no later operation changes the
\* week of an existing symptom log.
C22_SymptomLogWeekSnapshot == [][NewLogTakesStoredWeek /\ SymptomLogsKept]_vars

(***************************************************************************)
(* Properties of the life of a registration                                *)
(***************************************************************************)
WaitlistNeverPromoted ==
    \A g \in registrations :
        g.status = "WAITLIST" =>
            /\ findRegistration(g.eventId, g.userId)' # {}
            /\ \A h \in registrations' :
                  (h.eventId = g.eventId /\ h.userId = g.userId)
                      => h.status \in {"WAITLIST", "CANCELLED"}

RegisteredOnlyByNewRow ==
    \A h \in registrations' \ registrations :
        h.status = "REGISTERED" =>
            /\ findRegistration(h.eventId, h.userId) = {}
            /\ \E r \in EvReqIds :
                  /\ evReq[r].op = "registerForEvent" /\ evReq[r].pc = "insert"
                  /\ evReq[r].id = h.eventId /\ evReq[r].userId = h.userId

\* C23: no operation turns a WAITLIST registration into REGISTERED: when a
\* REGISTERED registration of a full event is cancelled the waiting rows stay
\* WAITLIST, and a row becomes REGISTERED only as the new row of a
\* registerForEvent of a mother who had no row for the event.
C23_NoPromotionFromWaitlist == [][WaitlistNeverPromoted /\ RegisteredOnlyByNewRow]_vars

\* The event has one spot; a mother waited, the registered mother cancelled,
\* the waiting mother still waits, and a third mother, who read no REGISTERED
\* row, took the spot.
C23_Witness ==
    \E e \in events : \E a, b, c \in EventMothers :
        /\ e.capacity = {1} /\ e.waitlistEnabled
        /\ [eventId |-> e.id, userId |-> a, status |-> "CANCELLED"] \in registrations
        /\ [eventId |-> e.id, userId |-> b, status |-> "WAITLIST"] \in registrations
        /\ [eventId |-> e.id, userId |-> c, status |-> "REGISTERED"] \in registrations
        /\ evReq[1].pc = "done" /\ evReq[1].op = "registerForEvent"
        /\ evReq[1].userId = c /\ evReq[1].id = e.id
        /\ evReq[1].status = 201 /\ evReq[1].count = 0

(***************************************************************************)
(* Properties of the feed                                                  *)
(***************************************************************************)
PostRowsKept ==
    \A p \in posts : \E q \in posts' : q.id = p.id /\ (p.deleted => q.deleted)

\* The request of slot r is answered in this step as operation op.
AnswersAs(r, op) ==
    /\ commReq[r].pc # "done"
    /\ commReq'[r].pc = "done"
    /\ commReq'[r].op = op

DeletedPostsHidden ==
    \A r \in CommReqIds : \A p \in posts :
        p.deleted =>
            /\ (AnswersAs(r, "getPostById") /\ commReq'[r].id = p.id)
                   => commReq'[r].status = 404
            /\ AnswersAs(r, "getPosts") => p.id \notin commReq'[r].data

\* C24: deletePost keeps the row and sets deletedAt; a deletedAt once set is
\* never cleared, and from then on getPostById answers 404 for the post and
\* getPosts does not return it.
C24_SoftDeleteIsFinal == [][PostRowsKept /\ DeletedPostsHidden]_vars

\* A post was deleted by deletePost, its row is still in the table, and a
\* later getPostById for it was answered 404.
C24_Witness ==
    /\ \E p \in posts : p.deleted /\ p.id = commReq[1].id
    /\ commReq[1].pc = "done" /\ commReq[1].op = "getPostById"
    /\ commReq[1].status = 404

PrivatePostsForMembersOnly ==
    \A r \in CommReqIds :
        AnswersAs(r, "getPosts") =>
            \A p \in posts : \A g \in groups :
                (p.id \in commReq'[r].data /\ g.id \in p.groupId /\ ~g.isPublic)
                    => groupId_userId(g.id, commReq'[r].userId) # {}

\* C27: getPosts returns a post of a private group only to a member of the
\* group, in the general feed and with the groupId query parameter.
C27_PrivatePostsForMembersOnly == [][PrivatePostsForMembersOnly]_vars

(***************************************************************************)
(* Properties of rejected requests                                         *)
(***************************************************************************)
ClientErrors == {400, 401, 403, 404, 409}

\* The tables; the request slots and the clock are not part of it.
persisted ==
    <<users, profiles, pregnancies, symptomLogs, events, registrations, reports,
      classes, verified, posts, reactions, comments, groups, groupMembers,
      notifications, enrollments, classReviews>>

\* The request has already written: addReview past its upsert.  In every
\* other handler the write is the last store call.
HasWritten(r) == reviewReq[r].pc \in {"findMany", "update"}

\* This step answers a request with a client error.
AnswersClientError ==
    \/ \E r \in RegIds : regReq[r].pc # "done" /\ regReq'[r].pc = "done"
                          /\ regReq'[r].status \in ClientErrors
    \/ \E r \in LoginIds : loginReq[r].pc # "done" /\ loginReq'[r].pc = "done"
                            /\ loginReq'[r].status \in ClientErrors
    \/ \E r \in PregReqIds : pregReq[r].pc # "done" /\ pregReq'[r].pc = "done"
                              /\ pregReq'[r].status \in ClientErrors
    \/ \E r \in EvReqIds : evReq[r].pc # "done" /\ evReq'[r].pc = "done"
                            /\ evReq'[r].status \in ClientErrors
    \/ \E r \in AuthReqIds : authReq[r].pc # "done" /\ authReq'[r].pc = "done"
                              /\ authReq'[r].status \in ClientErrors
    \/ \E r \in CommReqIds : commReq[r].pc # "done" /\ commReq'[r].pc = "done"
                              /\ commReq'[r].status \in ClientErrors
    \/ \E r \in UserReqIds : userReq[r].pc # "done" /\ userReq'[r].pc = "done"
                              /\ userReq'[r].status \in ClientErrors
    \/ \E r \in ReviewReqIds : reviewReq[r].pc # "done" /\ reviewReq'[r].pc = "done"
                                /\ reviewReq'[r].status \in ClientErrors

RejectedWritesNothing ==
    /\ AnswersClientError => UNCHANGED persisted
    /\ \A r \in ReviewReqIds :
          HasWritten(r) => ~(reviewReq'[r].pc = "done"
                             /\ reviewReq'[r].status \in ClientErrors)

\* C25: a request that is answered with 400, 401, 403, 404 or 409 has written
\* nothing: the step that answers leaves every table as it was, and the
\* request is not past a write of its own.
C25_ClientErrorWritesNothing == [][RejectedWritesNothing]_vars

\* C25 witness: leaveGroup has answered 404 to a mother who is in no group,
\* while a pregnancy, a registration, a review and a group with its creator
\* as member are stored.
C25_Witness ==
    /\ commReq[1].pc = "done" /\ commReq[1].op = "leaveGroup"
    /\ commReq[1].status = 404 /\ commReq[1].userId = 3
    /\ groupMembers = {[groupId |-> 1, userId |-> 2]}
    /\ pregnancies # {} /\ registrations # {} /\ classReviews # {}

(***************************************************************************)
(* Properties of cancelled registrations                                   *)
(***************************************************************************)
cancelledRow(eventId, userId) ==
    \E g \in registrations :
        g.eventId = eventId /\ g.userId = userId /\ g.status = "CANCELLED"

\* Every row stays, with its status or with CANCELLED in its place.
StatusOnlyMovesToCancelled ==
    \A g \in registrations :
        \/ g \in registrations'
        \/ /\ g.status \in {"REGISTERED", "WAITLIST"}
           /\ [g EXCEPT !.status = "CANCELLED"] \in registrations'

\* No step adds a row for a mother and an event that have a cancelled one.
NoNewRowBesideCancelled ==
    \A g \in registrations' \ registrations :
        cancelledRow(g.eventId, g.userId) => g.status = "CANCELLED"

\* A registerForEvent that starts, or that looks the registration up, while
\* the row of its mother and event is CANCELLED: the first goes on to the
\* look-up, the second answers 409.
RegisterAfterCancelAnswers409 ==
    \A r \in EvReqIds :
        /\ (/\ evReq[r].pc = "idle" /\ evReq'[r].pc # "idle"
            /\ evReq'[r].op = "registerForEvent"
            /\ cancelledRow(evReq'[r].id, evReq'[r].userId))
           => evReq'[r].pc = "existing"
        /\ (/\ evReq[r].pc = "existing" /\ evReq'[r].pc # "existing"
            /\ cancelledRow(evReq[r].id, evReq[r].userId))
           => (evReq'[r].pc = "done" /\ evReq'[r].status = 409)

\* C26: a registration only moves from REGISTERED or WAITLIST to CANCELLED
\* and stays CANCELLED; a registerForEvent of the mother for that event that
\* comes after the cancellation answers 409 and adds no row.
C26_CancelledIsTerminal ==
    [][StatusOnlyMovesToCancelled /\ NoNewRowBesideCancelled
       /\ RegisterAfterCancelAnswers409]_vars

\* C26 witness: mother 2 registered, cancelled, and her next registerForEvent
\* for the event was answered 409, the event having free places.
C26_Witness ==
    /\ evReq[1].pc = "done" /\ evReq[1].op = "registerForEvent"
    /\ evReq[1].userId = 2 /\ evReq[1].status = 409
    /\ registrations = {[eventId |-> evReq[1].id, userId |-> 2, status |-> "CANCELLED"]}
    /\ \E e \in events : e.id = evReq[1].id /\ e.capacity = {}

(***************************************************************************)
(* Properties of the class detail                                          *)
(***************************************************************************)
validBearer(header) == authenticate(header.value).status # 401

\* C28: GET /classes/:id answers a published class with the videoUrl of its
\* videos when the request carries a valid bearer token, and without it when
\* the request is unauthenticated.
C28_VideoUrlOnlyWithToken ==
    \A r \in AuthReqIds :
        (authReq[r].pc = "done" /\ authReq[r].route = "getClassById"
         /\ authReq[r].status = 200)
        => (authReq[r].videoUrl <=> validBearer(authReq[r].header))

(***************************************************************************)
(* Properties of the publication of events                                 *)
(***************************************************************************)
publishedIds == {e.id : e \in {x \in events : x.isPublished}}

\* A new event is unpublished; an event stays, and stays published.
CreatedUnpublishedAndKept ==
    /\ \A e \in events' : (\A x \in events : x.id # e.id) => ~e.isPublished
    /\ \A x \in events : \E e \in events' : e.id = x.id /\ (x.isPublished => e.isPublished)

\* An event becomes published only in the step in which publishEvent answers
\* 200 to an administrator for that event.
PublishedByAdminOnly ==
    \A id \in publishedIds' \ publishedIds :
        \E r \in AuthReqIds :
            /\ authReq[r].pc = "authenticated" /\ authReq[r].route = "publishEvent"
            /\ authReq[r].id = id /\ authReq[r].userRole = "ADMIN"
            /\ authReq'[r].pc = "done" /\ authReq'[r].status = 200

\* registerForEvent that starts on an event that is not published answers 404.
UnpublishedAnswers404 ==
    \A r \in EvReqIds :
        (/\ evReq[r].pc = "idle" /\ evReq'[r].pc # "idle"
         /\ evReq'[r].op = "registerForEvent"
         /\ evReq'[r].id \notin publishedIds)
        => (evReq'[r].pc = "done" /\ evReq'[r].status \in {403, 404})

\* A row that is added belongs to an event that is already published.
RegistrationsOfPublishedEvents ==
    /\ \A g \in registrations : g.eventId \in publishedIds
    /\ \A g \in registrations' \ registrations : g.eventId \in publishedIds

\* C29: events are created unpublished, only publishEvent run by an
\* administrator publishes one, nothing unpublishes it, registerForEvent on an
\* unpublished event answers 404, and every registration belongs to an event
\* that was published before the registration was created.
C29_RegistrationsOnlyAfterPublication ==
    [][CreatedUnpublishedAndKept /\ PublishedByAdminOnly /\ UnpublishedAnswers404
       /\ RegistrationsOfPublishedEvents]_vars

\* C29 witness: the mother's first registerForEvent was answered 404, the
\* administrator published the event, and her second one created the row.
C29_Witness ==
    /\ evReq[1].pc = "done" /\ evReq[1].op = "registerForEvent"
    /\ evReq[1].id = 1 /\ evReq[1].status = 404
    /\ evReq[2].pc = "done" /\ evReq[2].op = "registerForEvent"
    /\ evReq[2].id = 1 /\ evReq[2].status = 201
    /\ authReq[1].pc = "done" /\ authReq[1].route = "publishEvent"
    /\ authReq[1].userRole = "ADMIN" /\ authReq[1].status = 200
    /\ registrations = {[eventId |-> 1, userId |-> 2, status |-> "REGISTERED"]}
    /\ events # {} /\ \A e \in events : e.isPublished

(***************************************************************************)
(* Properties of an event with capacity 0                                  *)
(***************************************************************************)
capacityZeroIds == {e.id : e \in {x \in events : x.capacity = {0}}}

\* C30: an event with capacity 0 has no REGISTERED registration, and
\* getEventById reports it with isFull true and spotsLeft 0.
C30_CapacityZeroAdmitsNobody ==
    /\ \A g \in registrations : g.eventId \in capacityZeroIds => g.status # "REGISTERED"
    /\ \A r \in EvReqIds :
          (/\ evReq[r].pc = "done" /\ evReq[r].op = "getEventById"
           /\ evReq[r].status = 200 /\ evReq[r].id \in capacityZeroIds)
          => (evReq[r].isFull /\ evReq[r].spotsLeft = {0})

====
